---- MODULE Spec2Model ----
(***************************************************************************)
(* Temporal activity aggregation and outlier analysis of the commit        *)
(* scripts 1_collapse.py .. 7_only_graphs.py.                              *)
(*                                                                         *)
(* A date string 'YYYY-MM-DD' is modelled by the triple <<Y, M, D>> of its *)
(* three numeric fields; datetime.strptime validates the fields and turns  *)
(* them into a proleptic Gregorian ordinal, strftime turns an ordinal back *)
(* into the triple.  A dict is a function whose DOMAIN is its key set.     *)
(* A float quotient a / b is kept as the exact fraction [num, den].        *)
(***************************************************************************)
EXTENDS Integers, Sequences, FiniteSets, TLC

VARIABLES
    pc,              \* name of the function that returned last ("start" before any call)
    date_str,        \* argument of get_week_start_date
    commits_data,    \* the loaded JSON: user -> daily_commits (date string -> count)
    weekly_data,     \* argument of the weekly outlier functions: week -> commits
    threshold_percentage, \* argument of remove_weekly_outliers
    pre_treatment_weeks,  \* argument of filter_consistent_users
    uw_data,         \* user_week_data, argument of the user-week outlier functions
    uw_weeks,        \* sorted_weeks, argument of remove_user_week_outliers
    daily_commits,   \* one user's daily_commits, argument of the per-user metrics
    locals,          \* the local variables of calculate_streak_analysis while it runs
    ret              \* value returned by the last call

vars == <<pc, date_str, commits_data, weekly_data, threshold_percentage,
          pre_treatment_weeks, uw_data, uw_weeks, daily_commits, locals, ret>>

(***************************************************************************)
(* Python values.                                                          *)
(***************************************************************************)
None == <<>>
ValueError == <<"ValueError">>
NoData == [u \in {} |-> 0]

(***************************************************************************)
(* datetime: calendar arithmetic of strptime / strftime / timedelta.       *)
(***************************************************************************)
IsLeap(y) == (y % 4 = 0) /\ ((y % 100 # 0) \/ (y % 400 = 0))

DaysInMonth(y, m) ==
    IF m = 2 THEN (IF IsLeap(y) THEN 29 ELSE 28)
    ELSE IF m \in {4, 6, 9, 11} THEN 30 ELSE 31

DaysBeforeYear(y) ==
    (y - 1) * 365 + ((y - 1) \div 4) - ((y - 1) \div 100) + ((y - 1) \div 400)

RECURSIVE DaysBeforeMonth(_, _)
DaysBeforeMonth(y, m) ==
    IF m <= 1 THEN 0 ELSE DaysBeforeMonth(y, m - 1) + DaysInMonth(y, m - 1)

\* datetime(y, m, d).toordinal()
datetime(y, m, d) == DaysBeforeYear(y) + DaysBeforeMonth(y, m) + d

\* strptime(s, '%Y-%m-%d') succeeds
ParsesAsDate(s) ==
    /\ Len(s) = 3
    /\ s[1] \in 1..9999
    /\ s[2] \in 1..12
    /\ s[3] \in 1..DaysInMonth(s[1], s[2])

\* datetime.strptime(s, '%Y-%m-%d'), as an ordinal; only for ParsesAsDate(s)
strptime(s) == datetime(s[1], s[2], s[3])

\* date.strftime('%Y-%m-%d') of the ordinal n
strftime(n) ==
    LET y0 == ((n - 1) * 400) \div 146097 + 1
        y  == CHOOSE c \in {y0 - 1, y0, y0 + 1} :
                  DaysBeforeYear(c) < n /\ n <= DaysBeforeYear(c + 1)
        r  == n - DaysBeforeYear(y)
        m  == CHOOSE c \in 1..12 :
                  DaysBeforeMonth(y, c) < r /\ r <= DaysBeforeMonth(y, c) + DaysInMonth(y, c)
    IN  <<y, m, r - DaysBeforeMonth(y, m)>>

\* string comparison of two 'YYYY-MM-DD' strings (sorted(), <)
StrLess(a, b) ==
    \/ a[1] < b[1]
    \/ a[1] = b[1] /\ a[2] < b[2]
    \/ a[1] = b[1] /\ a[2] = b[2] /\ a[3] < b[3]

(***************************************************************************)
(* Calendar bucketer: get_week_start_date.                                 *)
(***************************************************************************)
\* reference_date of 2_outliers, 4_without_outliers, 6_summary, 7_only_graphs
reference_date_may == datetime(2024, 5, 1)
\* a plausible slip: an anchor that is no whole number of weeks after May 1
reference_date_jul_18 == datetime(2024, 7, 18)

\* reference_date of 1_collapse, 5_user_week
reference_date_jul == datetime(2024, 7, 17)

\* a plausible slip: division truncating toward zero instead of flooring
WeekNumberTruncating(days_diff) ==
    IF days_diff >= 0 THEN days_diff \div 7 ELSE -((-days_diff) \div 7)

\* a plausible slip: weeks counted from one
WeekNumberFromOne(days_diff) == (days_diff \div 7) + 1

\* week_number = days_diff // 7
WeekNumber(days_diff) == days_diff \div 7

\* the body of get_week_start_date after a successful strptime
WeekStart(date, reference_date) ==
    LET days_diff   == date - reference_date
        week_number == WeekNumber(days_diff)
        week_start  == reference_date + week_number * 7
    IN  strftime(week_start)

\* get_week_start_date without try/except: an unparseable string raises
get_week_start_date_raising(s, reference_date) ==
    IF ParsesAsDate(s) THEN WeekStart(strptime(s), reference_date) ELSE ValueError

\* get_week_start_date with try/except ValueError: return None
get_week_start_date_guarded(s, reference_date) ==
    IF ParsesAsDate(s) THEN WeekStart(strptime(s), reference_date) ELSE None

get_week_start_date_1(s) == get_week_start_date_raising(s, reference_date_jul)
get_week_start_date_2(s) == get_week_start_date_raising(s, reference_date_may)
get_week_start_date_4(s) == get_week_start_date_raising(s, reference_date_may)
get_week_start_date_5(s) == get_week_start_date_guarded(s, reference_date_jul)
get_week_start_date_6(s) == get_week_start_date_guarded(s, reference_date_may)
get_week_start_date_7(s) == get_week_start_date_guarded(s, reference_date_may)

(***************************************************************************)
(* Containers: dict iteration, sorted(), sums.                             *)
(***************************************************************************)
\* the (user, date string) keys of the daily records of the users us
Records(cd, us) == UNION {{<<u, d>> : d \in DOMAIN cd[u]} : u \in us}

RECURSIVE SumCounts(_, _)
\* the sum of the commit counts of the records S
SumCounts(cd, S) ==
    IF S = {} THEN 0
    ELSE LET r == CHOOSE x \in S : TRUE
         IN  cd[r[1]][r[2]] + SumCounts(cd, S \ {r})

RECURSIVE SumValues(_, _)
\* sum(d[k] for k in K)
SumValues(d, K) ==
    IF K = {} THEN 0
    ELSE LET k == CHOOSE x \in K : TRUE
         IN  d[k] + SumValues(d, K \ {k})

RECURSIVE sorted(_)
\* sorted(S) of a set of date strings
sorted(S) ==
    IF S = {} THEN <<>>
    ELSE LET m == CHOOSE x \in S : \A y \in S : ~StrLess(y, x)
         IN  <<m>> \o sorted(S \ {m})

Range(q) == {q[i] : i \in DOMAIN q}

\* the users of commits_data in dict order
UserList(cd) == [i \in 1..Cardinality(DOMAIN cd) |-> i]

Returned(v) == [raised |-> FALSE, value |-> v]
Raised == [raised |-> TRUE, value |-> ValueError]

(***************************************************************************)
(* Weekly totals: collapse_to_weekly and the period filter.                *)
(***************************************************************************)
\* a plausible slip: zero counts processed like positive ones
PositiveOrZero(commit_count) == commit_count >= 0

\* if commit_count > 0
Positive(commit_count) == commit_count > 0

\* the records the loops process: those with commit_count > 0
PositiveRecords(cd, us) == {r \in Records(cd, us) : Positive(cd[r[1]][r[2]])}

\* collapse_to_weekly of 1_collapse, 2_outliers, 4_without_outliers:
\* get_week_start_date has no try/except, the first bad date string raises
collapse_to_weekly_raising(cd, reference_date) ==
    LET P == PositiveRecords(cd, DOMAIN cd)
        week(r) == WeekStart(strptime(r[2]), reference_date)
    IN  IF \E r \in P : ~ParsesAsDate(r[2]) THEN Raised
        ELSE Returned([w \in {week(r) : r \in P} |->
                          SumCounts(cd, {r \in P : week(r) = w})])

collapse_to_weekly_1(cd) == collapse_to_weekly_raising(cd, reference_date_jul)
collapse_to_weekly_2(cd) == collapse_to_weekly_raising(cd, reference_date_may)
collapse_to_weekly_4(cd) == collapse_to_weekly_raising(cd, reference_date_may)

may_start == datetime(2024, 5, 1)
aug_end == datetime(2024, 9, 4)
treatment_start == datetime(2024, 7, 17)

\* may_start <= week_date <= aug_end
StartsInPeriod(week) == may_start <= strptime(week) /\ strptime(week) <= aug_end

\* filter_complete_weeks of 2_outliers and 4_without_outliers (dict -> dict)
filter_complete_weeks(wd) == [w \in {w \in DOMAIN wd : StartsInPeriod(w)} |-> wd[w]]

\* filter_complete_weeks_may_aug of 6_summary and 7_only_graphs (set -> sorted list)
filter_complete_weeks_may_aug(all_weeks) == sorted({w \in all_weeks : StartsInPeriod(w)})

\* filter_complete_weeks of 5_user_week (set -> sorted list)
filter_complete_weeks_5(all_weeks) == sorted({w \in all_weeks : StartsInPeriod(w)})

\* [w for w in complete_weeks if strptime(w) < treatment_start]
PreTreatment(complete_weeks) ==
    SelectSeq(complete_weeks, LAMBDA w : strptime(w) < treatment_start)

(***************************************************************************)
(* Cohort filter: filter_consistent_users (6_summary, 7_only_graphs).      *)
(***************************************************************************)
\* user_weekly_commits of one user, restricted to the weeks in `weeks`
UserWeekly(cd, u, weeks, reference_date) ==
    LET P == {r \in PositiveRecords(cd, {u}) :
                 /\ get_week_start_date_guarded(r[2], reference_date) # None
                 /\ get_week_start_date_guarded(r[2], reference_date) \in weeks}
        week(r) == get_week_start_date_guarded(r[2], reference_date)
    IN  [w \in {week(r) : r \in P} |-> SumCounts(cd, {r \in P : week(r) = w})]

\* a plausible slip: the length test dropped
ConsistentValuesOnly(user_weekly_commits, ptw) ==
    \A w \in DOMAIN user_weekly_commits : user_weekly_commits[w] > 0

\* len(user_weekly_commits) == len(pre_treatment_weeks) and all(v > 0 ...)
Consistent(user_weekly_commits, ptw) ==
    /\ Cardinality(DOMAIN user_weekly_commits) = Len(ptw)
    /\ \A w \in DOMAIN user_weekly_commits : user_weekly_commits[w] > 0

filter_consistent_users(cd, ptw) ==
    SelectSeq(UserList(cd),
              LAMBDA u : Consistent(UserWeekly(cd, u, Range(ptw), reference_date_may), ptw))

(***************************************************************************)
(* 7_only_graphs: weekly totals and the dense user-week data.              *)
(***************************************************************************)
\* the set all_weeks collected by the first loop (guarded bucketer)
AllWeeks(cd, reference_date) ==
    {get_week_start_date_guarded(r[2], reference_date) :
        r \in {x \in PositiveRecords(cd, DOMAIN cd) : ParsesAsDate(x[2])}}

\* users_to_process, as the list of its keys
UsersToProcess(cd, complete_weeks, consistent_users_only) ==
    IF consistent_users_only
    THEN filter_consistent_users(cd, PreTreatment(complete_weeks))
    ELSE UserList(cd)

\* collapse_to_weekly of 7_only_graphs: (filtered_weekly, len(users_to_process))
collapse_to_weekly_7(cd, consistent_users_only) ==
    LET complete_weeks == filter_complete_weeks_may_aug(AllWeeks(cd, reference_date_may))
        users == UsersToProcess(cd, complete_weeks, consistent_users_only)
        P == PositiveRecords(cd, Range(users))
    IN  Returned([filtered_weekly |->
                     [w \in Range(complete_weeks) |->
                         SumCounts(cd, {r \in P : get_week_start_date_7(r[2]) = w})],
                  total_users |-> Len(users)])

RECURSIVE Flatten(_)
Flatten(ss) == IF ss = <<>> THEN <<>> ELSE Head(ss) \o Flatten(Tail(ss))

\* a plausible slip: only the weeks the user was active in are emitted
ActiveWeeksOnly(user_weekly_commits, complete_weeks) ==
    SelectSeq(complete_weeks, LAMBDA w : w \in DOMAIN user_weekly_commits)

\* for week in complete_weeks
EmittedWeeks(user_weekly_commits, complete_weeks) == complete_weeks

\* create_user_week_data_for_averages: (user_week_data, complete_weeks, n)
create_user_week_data_for_averages(cd, consistent_users_only) ==
    LET complete_weeks == filter_complete_weeks_may_aug(AllWeeks(cd, reference_date_may))
        users == UsersToProcess(cd, complete_weeks, consistent_users_only)
        rows(u) ==
            LET uwc == UserWeekly(cd, u, Range(complete_weeks), reference_date_may)
                weeks == EmittedWeeks(uwc, complete_weeks)
            IN  [i \in 1..Len(weeks) |->
                    [user |-> u, week |-> weeks[i],
                     commits |-> IF weeks[i] \in DOMAIN uwc THEN uwc[weeks[i]] ELSE 0]]
    IN  Returned([user_week_data |-> Flatten([i \in 1..Len(users) |-> rows(users[i])]),
                  complete_weeks |-> complete_weeks,
                  total_users |-> Len(users)])

(***************************************************************************)
(* 6_summary: the sparse user-week observations.                           *)
(***************************************************************************)
\* create_user_week_matrix of 6_summary: (filtered_data, complete_weeks, n);
\* the keys of daily_commits are taken in ascending order
create_user_week_matrix_6(cd, consistent_users_only) ==
    LET all_weeks == AllWeeks(cd, reference_date_may)
        complete_weeks == filter_complete_weeks_may_aug(all_weeks)
        rows(u) ==
            LET uwc == UserWeekly(cd, u, all_weeks, reference_date_may)
                weeks == sorted(DOMAIN uwc)
            IN  [i \in 1..Len(weeks) |->
                    [user |-> u, week |-> weeks[i], commits |-> uwc[weeks[i]]]]
        user_week_data == Flatten([i \in 1..Cardinality(DOMAIN cd) |-> rows(i)])
        consistent_users == filter_consistent_users(cd, PreTreatment(complete_weeks))
    IN  Returned([user_week_data |->
                     IF consistent_users_only
                     THEN SelectSeq(user_week_data,
                              LAMBDA obs : /\ obs.user \in Range(consistent_users)
                                           /\ obs.week \in Range(complete_weeks))
                     ELSE SelectSeq(user_week_data,
                              LAMBDA obs : obs.week \in Range(complete_weeks)),
                  complete_weeks |-> complete_weeks,
                  total_users |-> IF consistent_users_only THEN Len(consistent_users)
                                  ELSE Cardinality(DOMAIN cd)])

(***************************************************************************)
(* 5_user_week: the user-week matrix and the weekly averages.              *)
(***************************************************************************)
Frac(a, b) == [num |-> a, den |-> b]

\* create_user_week_matrix of 5_user_week: (user_week_data, complete_weeks);
\* user_week_data has a key only for a user with a counted record
create_user_week_matrix_5(cd) ==
    LET all_weeks == AllWeeks(cd, reference_date_jul)
        active == {u \in DOMAIN cd : DOMAIN UserWeekly(cd, u, all_weeks, reference_date_jul) # {}}
    IN  Returned([user_week_data |->
                     [u \in active |-> UserWeekly(cd, u, all_weeks, reference_date_jul)],
                  complete_weeks |-> filter_complete_weeks_5(all_weeks)])

\* user_week_data[user][week] on the inner defaultdict(int)
Cell(user_week_data, user, week) ==
    IF week \in DOMAIN user_week_data[user] THEN user_week_data[user][week] ELSE 0

\* user_week_data after every user_week_data[user][week] of the loop has
\* been evaluated: a defaultdict read of a missing key inserts it
AfterReads(user_week_data, sorted_weeks) ==
    [u \in DOMAIN user_week_data |->
        [w \in DOMAIN user_week_data[u] \cup Range(sorted_weeks) |->
            Cell(user_week_data, u, w)]]

\* calculate_weekly_averages: the returned dict
calculate_weekly_averages(user_week_data, sorted_weeks) ==
    IF DOMAIN user_week_data = {} \/ Len(sorted_weeks) = 0 THEN NoData
    ELSE LET total_users == Cardinality(DOMAIN user_week_data)
             week_total(w) ==
                 SumValues([u \in DOMAIN user_week_data |-> Cell(user_week_data, u, w)],
                           DOMAIN user_week_data)
         IN  [w \in Range(sorted_weeks) |-> Frac(week_total(w), total_users)]

\* calculate_averages_without_power_users: the returned dict
calculate_averages_without_power_users(user_week_data, sorted_weeks, power_users) ==
    IF DOMAIN user_week_data = {} \/ Len(sorted_weeks) = 0 THEN NoData
    ELSE LET regular_users == DOMAIN user_week_data \ power_users
             total_regular_users == Cardinality(regular_users)
             week_total(w) ==
                 SumValues([u \in regular_users |-> Cell(user_week_data, u, w)],
                           regular_users)
         IN  IF total_regular_users = 0
             THEN [w \in Range(sorted_weeks) |-> Frac(0, 1)]
             ELSE [w \in Range(sorted_weeks) |-> Frac(week_total(w), total_regular_users)]

(***************************************************************************)
(* 4_without_outliers: remove_weekly_outliers.                             *)
(***************************************************************************)
\* average_commits = sum(commits_list) / len(commits_list)
average_commits(wd) == Frac(SumValues(wd, DOMAIN wd), Cardinality(DOMAIN wd))

\* a plausible slip: the percentage taken below the average
thresholdBelow(wd, pct) ==
    Frac(average_commits(wd).num * (100 - pct), average_commits(wd).den * 100)

\* threshold = average_commits * (1 + threshold_percentage / 100)
threshold(wd, pct) ==
    Frac(average_commits(wd).num * (100 + pct), average_commits(wd).den * 100)

\* a plausible slip: a week equal to the threshold is removed too
BelowThreshold(commits, t) == commits * t.den < t.num

\* commits <= threshold
WithinThreshold(commits, t) == commits * t.den <= t.num

\* remove_weekly_outliers: (filtered_data, removed_weeks); the weeks of
\* weekly_data are taken in ascending order
remove_weekly_outliers(wd, pct) ==
    IF DOMAIN wd = {} THEN [filtered_data |-> NoData, removed_weeks |-> <<>>]
    ELSE LET t == threshold(wd, pct)
             weeks == sorted(DOMAIN wd)
             removed == SelectSeq(weeks, LAMBDA w : ~WithinThreshold(wd[w], t))
         IN  [filtered_data |->
                 [w \in {x \in DOMAIN wd : WithinThreshold(wd[x], t)} |-> wd[w]],
              removed_weeks |-> [i \in 1..Len(removed) |-> <<removed[i], wd[removed[i]]>>]]

(***************************************************************************)
(* 1_collapse: filter_complete_weeks (first and last week removed).        *)
(***************************************************************************)
\* a plausible slip: only the first week is cut off
AllButFirst(sorted_weeks) == SubSeq(sorted_weeks, 2, Len(sorted_weeks))

\* sorted_weeks[1:-1]
AllButFirstAndLast(sorted_weeks) == SubSeq(sorted_weeks, 2, Len(sorted_weeks) - 1)

\* filter_complete_weeks of 1_collapse; sorted(weekly_data.items()) orders
\* the (week, commits) pairs by week, the weeks being distinct keys
filter_complete_weeks_1(wd) ==
    IF DOMAIN wd = {} THEN wd
    ELSE IF Len(sorted(DOMAIN wd)) <= 2 THEN wd
    ELSE [w \in Range(AllButFirstAndLast(sorted(DOMAIN wd))) |-> wd[w]]

(***************************************************************************)
(* 2_outliers: analyze_outliers.                                           *)
(***************************************************************************)
\* the if / elif chain of analyze_outliers; the thresholds are
\* average * 2.0, average * 1.5 and average * 0.5
category(commits, average) ==
    IF commits * average.den >= 2 * average.num THEN "high_100"
    ELSE IF 2 * commits * average.den >= 3 * average.num THEN "high_50"
    ELSE IF 2 * commits * average.den <= average.num THEN "low_50"
    ELSE "normal"

\* analyze_outliers: raises on an empty dict, else the analysis dict; each
\* category is the list of (week, commits) in the order of weekly_data
analyze_outliers(wd) ==
    IF DOMAIN wd = {} THEN Raised
    ELSE LET average == Frac(SumValues(wd, DOMAIN wd), Cardinality(DOMAIN wd))
             weeks == sorted(DOMAIN wd)
             members(c) ==
                 LET ws == SelectSeq(weeks, LAMBDA w : category(wd[w], average) = c)
                 IN  [i \in 1..Len(ws) |-> <<ws[i], wd[ws[i]]>>]
         IN  Returned([average |-> average,
                       thresholds |->
                           [above_50 |-> Frac(3 * average.num, 2 * average.den),
                            below_50 |-> Frac(average.num, 2 * average.den),
                            above_100 |-> Frac(2 * average.num, average.den)],
                       categories |->
                           [normal |-> members("normal"),
                            high_50 |-> members("high_50"),
                            low_50 |-> members("low_50"),
                            high_100 |-> members("high_100")]])

(***************************************************************************)
(* 5_user_week: remove_user_week_outliers.                                 *)
(***************************************************************************)
\* user_week_data.keys() as a list, in ascending user id
KeyList(d) ==
    [i \in 1..Cardinality(DOMAIN d) |->
        CHOOSE u \in DOMAIN d : Cardinality({v \in DOMAIN d : v < u}) = i - 1]

\* week_average = sum(week_commits) / total_users
week_average(uwd, week) ==
    Frac(SumValues([u \in DOMAIN uwd |-> Cell(uwd, u, week)], DOMAIN uwd),
         Cardinality(DOMAIN uwd))

\* threshold = week_average * (1 + threshold_percentage / 100)
week_threshold(uwd, week, pct) ==
    Frac(week_average(uwd, week).num * (100 + pct), week_average(uwd, week).den * 100)

\* the cell passes `commits <= threshold` and is copied to cleaned_data
Kept(uwd, user, week, pct) ==
    Cell(uwd, user, week) * week_threshold(uwd, week, pct).den
        <= week_threshold(uwd, week, pct).num

\* remove_user_week_outliers: (cleaned_averages, removed_outliers); the
\* outliers are appended week by week, user by user
remove_user_week_outliers(uwd, sw, pct) ==
    IF DOMAIN uwd = {} \/ Len(sw) = 0
    THEN [cleaned_averages |-> NoData, removed_outliers |-> <<>>]
    ELSE LET total_users == Cardinality(DOMAIN uwd)
             flagged(week) == SelectSeq(KeyList(uwd), LAMBDA u : ~Kept(uwd, u, week, pct))
             entries(week) ==
                 [i \in 1..Len(flagged(week)) |->
                     [user |-> flagged(week)[i],
                      week |-> week,
                      commits |-> Cell(uwd, flagged(week)[i], week),
                      week_average |-> week_average(uwd, week),
                      threshold |-> week_threshold(uwd, week, pct)]]
             cleaned(week) ==
                 [u \in DOMAIN uwd |->
                     IF Kept(uwd, u, week, pct) THEN Cell(uwd, u, week) ELSE 0]
         IN  [cleaned_averages |->
                 [w \in Range(sw) |-> Frac(SumValues(cleaned(w), DOMAIN uwd), total_users)],
              removed_outliers |-> Flatten([i \in 1..Len(sw) |-> entries(sw[i])])]

(***************************************************************************)
(* 6_summary, 7_only_graphs: remove_top_5_percent_outliers.                *)
(***************************************************************************)
\* np.percentile(commits_values, 95): linear interpolation between the two
\* order statistics around the rank (n - 1) * 95 / 100
percentile95(commits_values) ==
    LET n == Len(commits_values)
        a == SortSeq(commits_values, LAMBDA x, y : x < y)
        lo == ((n - 1) * 95) \div 100
        hi == IF lo + 1 < n THEN lo + 1 ELSE lo
    IN  Frac(100 * a[lo + 1] + ((n - 1) * 95 - 100 * lo) * (a[hi + 1] - a[lo + 1]), 100)

\* a plausible slip: an observation equal to the percentile is an outlier too
AtOrAboveP95(obs, p95_threshold) ==
    obs.commits * p95_threshold.den >= p95_threshold.num

\* obs['commits'] > p95_threshold
AboveP95(obs, p95_threshold) == obs.commits * p95_threshold.den > p95_threshold.num

\* [obs['commits'] for obs in user_week_data]
CommitsValues(uwd) == [i \in 1..Len(uwd) |-> uwd[i].commits]

\* remove_top_5_percent_outliers of 6_summary: the tuple (clean_data, outliers)
remove_top_5_percent_outliers_6(uwd) ==
    IF uwd = <<>> THEN << <<>>, <<>> >>
    ELSE LET p95_threshold == percentile95(CommitsValues(uwd))
         IN  << SelectSeq(uwd, LAMBDA obs : ~AboveP95(obs, p95_threshold)),
                SelectSeq(uwd, LAMBDA obs : AboveP95(obs, p95_threshold)) >>

\* remove_top_5_percent_outliers of 7_only_graphs: the tuple
\* (clean_data, outliers, p95_threshold), but ([], []) for an empty list
remove_top_5_percent_outliers_7(uwd) ==
    IF uwd = <<>> THEN << <<>>, <<>> >>
    ELSE LET p95_threshold == percentile95(CommitsValues(uwd))
         IN  << SelectSeq(uwd, LAMBDA obs : ~AboveP95(obs, p95_threshold)),
                SelectSeq(uwd, LAMBDA obs : AboveP95(obs, p95_threshold)),
                p95_threshold >>

\* bg_clean, _, bg_threshold = remove_top_5_percent_outliers(bg_user_week):
\* unpacking a tuple of another length raises ValueError
unpack_clean_threshold(result) ==
    IF Len(result) = 3
    THEN Returned([bg_clean |-> result[1], bg_threshold |-> result[3]])
    ELSE Raised

(***************************************************************************)
(* 6_summary: the user-week statistics and the comparative reporter.  A    *)
(* standard deviation is kept as its square, the variance: it is 0         *)
(* exactly when the variance is, and a quotient of two standard deviations *)
(* is kept as the quotient of the variances.                               *)
(***************************************************************************)
\* np.percentile(values, q): linear interpolation between the two order
\* statistics around the rank (n - 1) * q / 100 (np.median is q = 50)
percentile(values, q) ==
    LET n == Len(values)
        a == SortSeq(values, LAMBDA x, y : x < y)
        lo == ((n - 1) * q) \div 100
        hi == IF lo + 1 < n THEN lo + 1 ELSE lo
    IN  Frac(100 * a[lo + 1] + ((n - 1) * q - 100 * lo) * (a[hi + 1] - a[lo + 1]), 100)

\* the keys p10 .. p99 of stats['percentiles']
PercentileKeys == {10, 25, 50, 75, 90, 95, 99}

\* analyze_user_week_statistics: {} for an empty list, else the stats dict
analyze_user_week_statistics(uwd) ==
    IF uwd = <<>> THEN NoData
    ELSE LET commits_list == CommitsValues(uwd)
             n == Len(uwd)
             S == SumValues(commits_list, DOMAIN commits_list)
             Q == SumValues([i \in DOMAIN commits_list |-> commits_list[i] * commits_list[i]],
                            DOMAIN commits_list)
             zero_commit_weeks == Cardinality({i \in DOMAIN commits_list : commits_list[i] = 0})
             active_weeks == Cardinality({i \in DOMAIN commits_list : commits_list[i] > 0})
         IN  [total_observations |-> Frac(n, 1),
              unique_users |-> Frac(Cardinality({uwd[i].user : i \in DOMAIN uwd}), 1),
              unique_weeks |-> Frac(Cardinality({uwd[i].week : i \in DOMAIN uwd}), 1),
              total_commits |-> Frac(S, 1),
              mean_commits |-> Frac(S, n),
              std_commits |-> Frac(n * Q - S * S, n * n),
              median_commits |-> percentile(commits_list, 50),
              percentiles |-> [q \in PercentileKeys |-> percentile(commits_list, q)],
              zero_commit_weeks |-> Frac(zero_commit_weeks, 1),
              active_weeks |-> Frac(active_weeks, 1),
              zero_commit_percentage |-> Frac(zero_commit_weeks * 100, n),
              active_percentage |-> Frac(active_weeks * 100, n)]

\* float('inf')
inf == [kind |-> "inf", value |-> Frac(1, 0)]

\* ratio = bg_val / ph_val if ph_val != 0 else float('inf')
ratio(bg_val, ph_val) ==
    IF ph_val.num # 0
    THEN [kind |-> "finite", value |-> Frac(bg_val.num * ph_val.den, bg_val.den * ph_val.num)]
    ELSE inf

\* compare_countries_user_week: the rows it prints, as (label, ratio)
compare_countries_user_week(bangladesh_results, philippines_results) ==
    LET bg_stats == bangladesh_results.clean_stats
        ph_stats == philippines_results.clean_stats
        comparisons == <<"total_observations", "unique_users", "unique_weeks",
                         "mean_commits", "median_commits", "std_commits",
                         "active_percentage">>
        ps == <<25, 50, 75, 90, 95>>
    IN  << [label |-> "Consistent Users",
            ratio |-> ratio(Frac(bangladesh_results.total_consistent_users, 1),
                            Frac(philippines_results.total_consistent_users, 1))] >>
        \o [i \in DOMAIN comparisons |->
               [label |-> comparisons[i],
                ratio |-> ratio(bg_stats[comparisons[i]], ph_stats[comparisons[i]])]]
        \o [i \in DOMAIN ps |->
               [label |-> "percentile",
                ratio |-> ratio(bg_stats.percentiles[ps[i]], ph_stats.percentiles[ps[i]])]]

\* change_pct = ((clean_val - orig_val) / orig_val) * 100, or 'N/A'
change_pct(orig_val, clean_val) ==
    IF orig_val.num # 0
    THEN [kind |-> "finite",
          value |-> Frac((clean_val.num * orig_val.den - orig_val.num * clean_val.den)
                            * orig_val.den * 100,
                         clean_val.den * orig_val.den * orig_val.num)]
    ELSE [kind |-> "N/A", value |-> Frac(0, 1)]

\* compare_with_without_outliers: the rows it prints, as (label, orig_val, change)
compare_with_without_outliers(original_data, clean_data) ==
    LET original_stats == analyze_user_week_statistics(original_data)
        clean_stats == analyze_user_week_statistics(clean_data)
        metrics == <<"total_observations", "mean_commits", "median_commits",
                     "std_commits", "active_percentage">>
        ps == <<95, 99>>
    IN  [i \in DOMAIN metrics |->
            [label |-> metrics[i],
             orig_val |-> original_stats[metrics[i]],
             change |-> change_pct(original_stats[metrics[i]], clean_stats[metrics[i]])]]
        \o [i \in DOMAIN ps |->
               [label |-> "percentile",
                orig_val |-> original_stats.percentiles[ps[i]],
                change |-> change_pct(original_stats.percentiles[ps[i]],
                                      clean_stats.percentiles[ps[i]])]]

\* analyze_country_user_week, given the tuple create_user_week_matrix returned
\* (matrix) and the tuple remove_top_5_percent_outliers returned for its
\* observations (removed): None without observations, else the results dict;
\* `printed` is what compare_with_without_outliers prints on the way
analyze_country_user_week(matrix, removed) ==
    IF matrix.user_week_data = <<>> THEN None
    ELSE [user_week_data |-> matrix.user_week_data,
          clean_data |-> removed[1],
          outliers |-> removed[2],
          complete_weeks |-> matrix.complete_weeks,
          clean_stats |-> analyze_user_week_statistics(removed[1]),
          total_consistent_users |-> matrix.total_users,
          printed |-> compare_with_without_outliers(matrix.user_week_data, removed[1])]

(***************************************************************************)
(* 4_without_outliers, 5_user_week: the monthly power users.  A month key  *)
(* '%Y-%m' is the pair (year, month).                                      *)
(***************************************************************************)
\* max(monthly_commits.values()) if monthly_commits else 0
max_monthly(monthly_commits) ==
    IF DOMAIN monthly_commits = {} THEN 0
    ELSE CHOOSE v \in Range(monthly_commits) : \A w \in Range(monthly_commits) : w <= v

\* monthly_commits of identify_power_users_by_month: every positive record
\* on a parseable date is added to its month
monthly_commits_4(dc) ==
    LET P == {d \in DOMAIN dc : dc[d] > 0 /\ ParsesAsDate(d)}
    IN  [k \in {<<d[1], d[2]>> : d \in P} |->
            SumValues(dc, {d \in P : <<d[1], d[2]>> = k})]

\* monthly_commits of identify_monthly_power_users: only the records with
\* may_start <= date <= aug_end
monthly_commits_5(dc) ==
    LET P == {d \in DOMAIN dc : /\ dc[d] > 0
                                /\ ParsesAsDate(d)
                                /\ may_start <= strptime(d)
                                /\ strptime(d) <= aug_end}
    IN  [k \in {<<d[1], d[2]>> : d \in P} |->
            SumValues(dc, {d \in P : <<d[1], d[2]>> = k})]

\* identify_power_users_by_month: the tuple (power_users, user_monthly_stats)
identify_power_users_by_month(cd, monthly_threshold) ==
    << {u \in DOMAIN cd : max_monthly(monthly_commits_4(cd[u])) > monthly_threshold},
       [u \in DOMAIN cd |->
           [max_monthly_commits |-> max_monthly(monthly_commits_4(cd[u])),
            monthly_breakdown |-> monthly_commits_4(cd[u]),
            total_commits |-> SumValues(monthly_commits_4(cd[u]),
                                        DOMAIN monthly_commits_4(cd[u]))]] >>

\* identify_monthly_power_users: the set power_users
identify_monthly_power_users(cd, monthly_threshold) ==
    {u \in DOMAIN cd : max_monthly(monthly_commits_5(cd[u])) > monthly_threshold}

(***************************************************************************)
(* 3_individual_outliers: the distribution statistics and the outlier      *)
(* rules.  The field std holds the variance, and a comparison with a       *)
(* multiple of the standard deviation is made between the squares.         *)
(***************************************************************************)
\* calculate_distribution_stats
calculate_distribution_stats(values) ==
    IF values = <<>>
    THEN [mean |-> Frac(0, 1), std |-> Frac(0, 1),
          percentiles |-> [p \in {25, 50, 75, 90, 95, 99} |-> Frac(0, 100)]]
    ELSE LET n == Len(values)
             S == SumValues(values, DOMAIN values)
             Q == SumValues([i \in DOMAIN values |-> values[i] * values[i]], DOMAIN values)
         IN  [mean |-> Frac(S, n), std |-> Frac(n * Q - S * S, n * n),
              percentiles |-> [p \in {25, 50, 75, 90, 95, 99} |-> percentile(values, p)]]

\* find_outliers_by_method: the five lists of (username, value); the
\* percentiles have the denominator 100, q1 - 1.5 * iqr = (5 q1 - 3 q3) / 2
find_outliers_by_method(values, usernames, stats) ==
    LET pairs == [i \in 1..(IF Len(values) <= Len(usernames) THEN Len(values)
                            ELSE Len(usernames)) |-> <<usernames[i], values[i]>>]
        q1 == stats.percentiles[25].num
        q3 == stats.percentiles[75].num
        dev2(v) == (v * stats.mean.den - stats.mean.num) * (v * stats.mean.den - stats.mean.num)
                       * stats.std.den
        var == stats.std.num * stats.mean.den * stats.mean.den
    IN  IF values = <<>> \/ usernames = <<>> \/ stats.mean.num = 0
        THEN [iqr_outliers |-> <<>>, above_2_sigma |-> <<>>, above_3_sigma |-> <<>>,
              top_1_percent |-> <<>>, bottom_1_percent |-> <<>>]
        ELSE [iqr_outliers |->
                  SelectSeq(pairs, LAMBDA p : \/ 200 * p[2] < 5 * q1 - 3 * q3
                                              \/ 200 * p[2] > 5 * q3 - 3 * q1),
              above_2_sigma |-> SelectSeq(pairs, LAMBDA p : dev2(p[2]) > 4 * var),
              above_3_sigma |-> SelectSeq(pairs, LAMBDA p : dev2(p[2]) > 9 * var),
              top_1_percent |->
                  SelectSeq(pairs, LAMBDA p : 100 * p[2] >= stats.percentiles[99].num),
              bottom_1_percent |->
                  SelectSeq(pairs, LAMBDA p : 400 * p[2] <= q1)]

(***************************************************************************)
(* 3_individual_outliers: the per-user metrics of one daily_commits dict.  *)
(***************************************************************************)
\* aug_end of filter_may_august_commits, end_date of the streak walk
aug_end_3 == datetime(2024, 9, 3)

\* filter_may_august_commits: the records on a parseable date inside
\* may_start..aug_end, zero counts included
filter_may_august_commits(dc) ==
    [d \in {x \in DOMAIN dc : ParsesAsDate(x) /\ may_start <= strptime(x)
                                              /\ strptime(x) <= aug_end_3} |-> dc[d]]

\* calculate_total_commits_may_aug
calculate_total_commits_may_aug(dc) ==
    SumValues(filter_may_august_commits(dc), DOMAIN filter_may_august_commits(dc))

\* a plausible slip: the zero days are kept among the active days
AllDays(filtered_commits) == DOMAIN filtered_commits

\* active_days = [c for c in commits_list if c > 0], as the dates they come from
ActiveDays(filtered_commits) == {d \in DOMAIN filtered_commits : filtered_commits[d] > 0}

\* a consistency score: 0, or 1 / (1 + cv) given by the square of cv
ScoreZero == [is_zero |-> TRUE, cv_squared |-> Frac(0, 1)]
ScoreOf(cv_squared) == [is_zero |-> FALSE, cv_squared |-> cv_squared]

\* calculate_consistency_score.  With n active days, sum S and sum of
\* squares Q, np.mean is S / n and np.std is sqrt(Q / n - (S / n)^2), so
\* cv^2 = (n * Q - S^2) / S^2; the score returned is 1 / (1 + cv)
calculate_consistency_score(dc) ==
    LET filtered_commits == filter_may_august_commits(dc)
        active == ActiveDays(filtered_commits)
        n == Cardinality(active)
        S == SumValues(filtered_commits, active)
        Q == SumValues([d \in active |-> filtered_commits[d] * filtered_commits[d]], active)
    IN  IF DOMAIN filtered_commits = {} THEN ScoreZero
        ELSE IF SumValues(filtered_commits, DOMAIN filtered_commits) = 0 THEN ScoreZero
        ELSE IF n < 2 THEN ScoreZero
        ELSE IF S = 0 THEN ScoreZero
        ELSE ScoreOf(Frac(n * Q - S * S, S * S))

Max(a, b) == IF a >= b THEN a ELSE b

\* a plausible slip: the running break is not reset on a day with commits
StreakStepNoReset(l) ==
    LET date_str_ == strftime(l.current_date)
        commits == IF date_str_ \in DOMAIN l.filtered_commits
                   THEN l.filtered_commits[date_str_] ELSE 0
    IN  IF commits > 0
        THEN [l EXCEPT !.current_streak = @ + 1,
                       !.longest_streak = Max(@, l.current_streak + 1),
                       !.current_date = @ + 1]
        ELSE [l EXCEPT !.current_break = @ + 1,
                       !.longest_break = Max(@, l.current_break + 1),
                       !.current_streak = 0,
                       !.current_date = @ + 1]

\* the body of the while loop of calculate_streak_analysis: the locals
\* after one iteration (filtered_commits.get(date_str, 0), the two
\* branches, current_date += timedelta(days=1))
StreakStep(l) ==
    LET date_str_ == strftime(l.current_date)
        commits == IF date_str_ \in DOMAIN l.filtered_commits
                   THEN l.filtered_commits[date_str_] ELSE 0
    IN  IF commits > 0
        THEN [l EXCEPT !.current_streak = @ + 1,
                       !.longest_streak = Max(@, l.current_streak + 1),
                       !.current_break = 0,
                       !.current_date = @ + 1]
        ELSE [l EXCEPT !.current_break = @ + 1,
                       !.longest_break = Max(@, l.current_break + 1),
                       !.current_streak = 0,
                       !.current_date = @ + 1]

\* a plausible slip: the walk starts on the second day of the window
StreakLocalsFromSecondDay(filtered_commits) ==
    [filtered_commits |-> filtered_commits, current_date |-> may_start + 1,
     current_streak |-> 0, longest_streak |-> 0,
     current_break |-> 0, longest_break |-> 0]

\* the locals of calculate_streak_analysis when the loop is entered
StreakLocals(filtered_commits) ==
    [filtered_commits |-> filtered_commits, current_date |-> may_start,
     current_streak |-> 0, longest_streak |-> 0,
     current_break |-> 0, longest_break |-> 0]

\* the keys of monthly_commits = {5: 0, 6: 0, 7: 0, 8: 0}
MonthKeys == 5..8

\* a month number where None may stand as well (None is the empty tuple)
Month(m) == <<m>>

\* analyze_seasonal_patterns; max(monthly_commits, key=monthly_commits.get)
\* is the first key of the largest value
analyze_seasonal_patterns(dc) ==
    LET filtered_commits == filter_may_august_commits(dc)
        monthly_commits ==
            [m \in MonthKeys |->
                SumValues(filtered_commits, {d \in DOMAIN filtered_commits : d[2] = m})]
        total_commits == SumValues(monthly_commits, MonthKeys)
    IN  [monthly_commits |-> monthly_commits,
         most_active_month |->
             IF total_commits = 0 THEN None
             ELSE Month(CHOOSE m \in MonthKeys :
                      /\ \A k \in MonthKeys : monthly_commits[k] <= monthly_commits[m]
                      /\ \A k \in MonthKeys : k < m => monthly_commits[k] < monthly_commits[m])]

\* date.weekday(): Monday = 0 .. Sunday = 6
weekday(date) == (date + 6) % 7

\* a plausible slip: Saturday falls through both branches
DayClassSundayOnly(date) ==
    IF weekday(date) < 5 THEN "weekday"
    ELSE IF weekday(date) = 6 THEN "weekend" ELSE "neither"

\* if date.weekday() < 5: weekday_commits += commits else: weekend_commits += commits
DayClass(date) == IF weekday(date) < 5 THEN "weekday" ELSE "weekend"

\* analyze_weekday_patterns
analyze_weekday_patterns(dc) ==
    LET filtered_commits == filter_may_august_commits(dc)
        weekday_commits ==
            SumValues(filtered_commits,
                      {d \in DOMAIN filtered_commits : DayClass(strptime(d)) = "weekday"})
        weekend_commits ==
            SumValues(filtered_commits,
                      {d \in DOMAIN filtered_commits : DayClass(strptime(d)) = "weekend"})
        total == weekday_commits + weekend_commits
    IN  IF total = 0
        THEN [weekday_commits |-> 0, weekend_commits |-> 0,
              weekday_ratio |-> Frac(0, 1), weekend_ratio |-> Frac(0, 1)]
        ELSE [weekday_commits |-> weekday_commits, weekend_commits |-> weekend_commits,
              weekday_ratio |-> Frac(weekday_commits, total),
              weekend_ratio |-> Frac(weekend_commits, total)]

\* the entry analyze_individual_users builds for one user, streaks being
\* what calculate_streak_analysis returned; the divisors are 123,
\* 17.5 (= 35 / 2) and 4
user_metrics(dc, streaks) ==
    LET total_commits == calculate_total_commits_may_aug(dc)
    IN  [total_commits |-> total_commits,
         avg_commits_per_day |->
             IF total_commits > 0 THEN Frac(total_commits, 123) ELSE Frac(0, 1),
         avg_commits_per_week |->
             IF total_commits > 0 THEN Frac(2 * total_commits, 35) ELSE Frac(0, 1),
         avg_commits_per_month |->
             IF total_commits > 0 THEN Frac(total_commits, 4) ELSE Frac(0, 1),
         consistency_score |-> calculate_consistency_score(dc),
         longest_streak |-> streaks.longest_streak,
         longest_break |-> streaks.longest_break,
         most_active_month |-> analyze_seasonal_patterns(dc).most_active_month,
         weekday_ratio |-> analyze_weekday_patterns(dc).weekday_ratio,
         weekend_ratio |-> analyze_weekday_patterns(dc).weekend_ratio]

(***************************************************************************)
(* 6_summary, 3_individual_outliers: classify_users_by_activity.  A user's *)
(* entry of commits_data is the record (total_commits, daily_commits).     *)
(***************************************************************************)
\* the if/elif chain on total_commits and total_commits / months
activity_category(total_commits, months) ==
    IF total_commits = 0 THEN "inactive"
    ELSE IF total_commits <= 3 * months THEN "casual"
    ELSE IF total_commits >= 200 * months THEN "power_users"
    ELSE "regular"

\* classify_users_by_activity of 6_summary: user_data.get('total_commits', 0)
\* averaged over 12 months
classify_users_by_activity_6(cd) ==
    [c \in {"inactive", "casual", "power_users", "regular"} |->
        SelectSeq(UserList(cd),
                  LAMBDA u : activity_category(cd[u].total_commits, 12) = c)]

\* classify_users_by_activity of 3_individual_outliers:
\* calculate_total_commits_may_aug(daily_commits) averaged over 4 months
classify_users_by_activity_3(cd) ==
    [c \in {"inactive", "casual", "power_users", "regular"} |->
        SelectSeq(UserList(cd),
                  LAMBDA u : activity_category(
                                 calculate_total_commits_may_aug(cd[u].daily_commits), 4) = c)]

(***************************************************************************)
(* 7_only_graphs: the weekly averages per user of the cleaned data.        *)
(***************************************************************************)
\* a plausible slip: the observations are not filtered by week
calculate_weekly_averages_unfiltered(user_week_data, complete_weeks, total_users) ==
    [w \in Range(complete_weeks) |->
        IF total_users > 0
        THEN Frac(SumValues([i \in DOMAIN user_week_data |-> user_week_data[i].commits],
                            DOMAIN user_week_data), total_users)
        ELSE Frac(0, 1)]

\* calculate_weekly_averages_per_user
calculate_weekly_averages_per_user(user_week_data, complete_weeks, total_users) ==
    [w \in Range(complete_weeks) |->
        LET W == {i \in DOMAIN user_week_data : user_week_data[i].week = w}
        IN  IF total_users > 0
            THEN Frac(SumValues([i \in W |-> user_week_data[i].commits], W), total_users)
            ELSE Frac(0, 1)]

\* plot_weekly_averages_per_user for one country, given the tuple
\* create_user_week_data_for_averages returned (m) and the tuple
\* remove_top_5_percent_outliers returned for its observations (removed):
\* the locals user_week, weeks, users, clean, averages, or ValueError from
\* the unpacking
averages_per_user(m, removed) ==
    IF unpack_clean_threshold(removed).raised THEN Raised
    ELSE Returned([user_week |-> m.user_week_data, weeks |-> m.complete_weeks,
                   users |-> m.total_users, clean |-> removed[1],
                   averages |-> calculate_weekly_averages_per_user(
                                    removed[1], m.complete_weeks, m.total_users)])

(***************************************************************************)
(* 5_user_week: main up to remove_user_week_outliers.                      *)
(***************************************************************************)
\* main of 5_user_week: None at an early return, else the locals
\* user_week_data, sorted_weeks, weekly_averages and the returned tuple
main_5_user_week(cd) ==
    LET m == create_user_week_matrix_5(cd).value
        weekly_averages == calculate_weekly_averages(m.user_week_data, m.complete_weeks)
        removed == remove_user_week_outliers(m.user_week_data, m.complete_weeks, 50)
    IN  IF DOMAIN cd = {} \/ DOMAIN m.user_week_data = {} \/ Len(m.complete_weeks) = 0
        THEN None
        ELSE [user_week_data |-> AfterReads(m.user_week_data, m.complete_weeks),
              sorted_weeks |-> m.complete_weeks,
              weekly_averages |-> weekly_averages,
              cleaned_averages |-> removed.cleaned_averages,
              removed_outliers |-> removed.removed_outliers]

(***************************************************************************)
(* Specification SpecBucket: the bucketer applied to one date string.      *)
(***************************************************************************)
SampleYears == {2023, 2024, 2025}
SampleDateStrings == {<<y, m, d>> : y \in SampleYears, m \in 1..12, d \in 1..31}

InitBucket ==
    /\ pc = "start"
    /\ date_str \in SampleDateStrings
    /\ commits_data = NoData
    /\ weekly_data = NoData
    /\ threshold_percentage = None
    /\ pre_treatment_weeks = None
    /\ uw_data = NoData
    /\ uw_weeks = None
    /\ daily_commits = NoData
    /\ locals = None
    /\ ret = None

Call_get_week_start_date_2 ==
    /\ pc = "start"
    /\ pc' = "get_week_start_date_2"
    /\ ret' = get_week_start_date_2(date_str)
    /\ UNCHANGED <<date_str, commits_data, weekly_data, threshold_percentage,
                   pre_treatment_weeks, uw_data, uw_weeks, daily_commits, locals>>

Call_get_week_start_date_1 ==
    /\ pc = "start"
    /\ pc' = "get_week_start_date_1"
    /\ ret' = get_week_start_date_1(date_str)
    /\ UNCHANGED <<date_str, commits_data, weekly_data, threshold_percentage,
                   pre_treatment_weeks, uw_data, uw_weeks, daily_commits, locals>>

Call_get_week_start_date_5 ==
    /\ pc = "start"
    /\ pc' = "get_week_start_date_5"
    /\ ret' = get_week_start_date_5(date_str)
    /\ UNCHANGED <<date_str, commits_data, weekly_data, threshold_percentage,
                   pre_treatment_weeks, uw_data, uw_weeks, daily_commits, locals>>

NextBucket ==
    \/ Call_get_week_start_date_2
    \/ Call_get_week_start_date_1
    \/ Call_get_week_start_date_5

SpecBucket == InitBucket /\ [][NextBucket]_vars

(***************************************************************************)
(* Specification SpecWeekly: one loaded commits_data, one script's         *)
(* aggregation applied to it.                                              *)
(***************************************************************************)
NumUsers == 2
MaxRecords == 2
MaxCount == 1

\* date strings of the input: before the period, in its first two weeks, the
\* last day of the period, the day after it, and one that does not parse
SampleDates ==
    {<<2024, 4, 30>>, <<2024, 5, 1>>, <<2024, 5, 9>>, <<2024, 9, 4>>, <<2024, 9, 5>>,
     <<2024, 2, 30>>}

\* the week buckets of the period that start before the treatment
SamplePreTreatmentWeeks == {<<2024, 5, 1>>, <<2024, 5, 8>>}

InitWeekly ==
    /\ pc = "start"
    /\ date_str = None
    /\ \E S \in {X \in SUBSET ((1..NumUsers) \X SampleDates) : Cardinality(X) <= MaxRecords} :
         \E c \in [S -> 0..MaxCount] :
            commits_data =
                [u \in 1..NumUsers |->
                    [d \in {x \in SampleDates : <<u, x>> \in S} |-> c[<<u, d>>]]]
    /\ weekly_data = NoData
    /\ threshold_percentage = None
    /\ pre_treatment_weeks = None
    /\ uw_data = NoData
    /\ uw_weeks = None
    /\ daily_commits = NoData
    /\ locals = None
    /\ ret = None

Call_collapse_to_weekly_1 ==
    /\ pc = "start"
    /\ pc' = "collapse_to_weekly_1"
    /\ ret' = collapse_to_weekly_1(commits_data)
    /\ UNCHANGED <<date_str, commits_data, weekly_data, threshold_percentage,
                   pre_treatment_weeks, uw_data, uw_weeks, daily_commits, locals>>

Call_collapse_to_weekly_2 ==
    /\ pc = "start"
    /\ pc' = "collapse_to_weekly_2"
    /\ ret' = collapse_to_weekly_2(commits_data)
    /\ UNCHANGED <<date_str, commits_data, weekly_data, threshold_percentage,
                   pre_treatment_weeks, uw_data, uw_weeks, daily_commits, locals>>

\* 2_outliers main: filter_complete_weeks(collapse_to_weekly(commits_data))
Call_filter_complete_weeks_2 ==
    /\ pc = "collapse_to_weekly_2"
    /\ ~ret.raised
    /\ pc' = "filter_complete_weeks_2"
    /\ ret' = Returned(filter_complete_weeks(ret.value))
    /\ UNCHANGED <<date_str, commits_data, weekly_data, threshold_percentage,
                   pre_treatment_weeks, uw_data, uw_weeks, daily_commits, locals>>

Call_collapse_to_weekly_4 ==
    /\ pc = "start"
    /\ pc' = "collapse_to_weekly_4"
    /\ ret' = collapse_to_weekly_4(commits_data)
    /\ UNCHANGED <<date_str, commits_data, weekly_data, threshold_percentage,
                   pre_treatment_weeks, uw_data, uw_weeks, daily_commits, locals>>

Call_collapse_to_weekly_7 ==
    /\ pc = "start"
    /\ \E consistent_users_only \in BOOLEAN :
          /\ pc' = IF consistent_users_only THEN "collapse_to_weekly_7_consistent"
                   ELSE "collapse_to_weekly_7_all"
          /\ ret' = collapse_to_weekly_7(commits_data, consistent_users_only)
    /\ UNCHANGED <<date_str, commits_data, weekly_data, threshold_percentage,
                   pre_treatment_weeks, uw_data, uw_weeks, daily_commits, locals>>

Call_filter_consistent_users ==
    /\ pc = "start"
    /\ \E weeks \in SUBSET SamplePreTreatmentWeeks :
          /\ pre_treatment_weeks' = sorted(weeks)
          /\ ret' = Returned(filter_consistent_users(commits_data, sorted(weeks)))
    /\ pc' = "filter_consistent_users"
    /\ UNCHANGED <<date_str, commits_data, weekly_data, threshold_percentage,
                   uw_data, uw_weeks, daily_commits, locals>>

Call_create_user_week_data_for_averages ==
    /\ pc = "start"
    /\ \E consistent_users_only \in BOOLEAN :
          /\ pc' = IF consistent_users_only THEN "create_user_week_data_for_averages_consistent"
                   ELSE "create_user_week_data_for_averages_all"
          /\ ret' = create_user_week_data_for_averages(commits_data, consistent_users_only)
    /\ UNCHANGED <<date_str, commits_data, weekly_data, threshold_percentage,
                   pre_treatment_weeks, uw_data, uw_weeks, daily_commits, locals>>

Call_create_user_week_matrix_6 ==
    /\ pc = "start"
    /\ \E consistent_users_only \in BOOLEAN :
          /\ pc' = IF consistent_users_only THEN "create_user_week_matrix_6_consistent"
                   ELSE "create_user_week_matrix_6_all"
          /\ ret' = create_user_week_matrix_6(commits_data, consistent_users_only)
    /\ UNCHANGED <<date_str, commits_data, weekly_data, threshold_percentage,
                   pre_treatment_weeks, uw_data, uw_weeks, daily_commits, locals>>

Call_create_user_week_matrix_5 ==
    /\ pc = "start"
    /\ pc' = "create_user_week_matrix_5"
    /\ ret' = create_user_week_matrix_5(commits_data)
    /\ UNCHANGED <<date_str, commits_data, weekly_data, threshold_percentage,
                   pre_treatment_weeks, uw_data, uw_weeks, daily_commits, locals>>

\* calculate_weekly_averages(user_week_data, sorted_weeks) on the matrix just
\* built; user_week_data is the caller's object and keeps the keys the reads add
Call_calculate_weekly_averages_5 ==
    /\ pc = "create_user_week_matrix_5"
    /\ pc' = "calculate_weekly_averages_5"
    /\ ret' = Returned(
           [user_week_data |-> AfterReads(ret.value.user_week_data, ret.value.complete_weeks),
            complete_weeks |-> ret.value.complete_weeks,
            weekly_averages |-> calculate_weekly_averages(ret.value.user_week_data,
                                                          ret.value.complete_weeks)])
    /\ UNCHANGED <<date_str, commits_data, weekly_data, threshold_percentage,
                   pre_treatment_weeks, uw_data, uw_weeks, daily_commits, locals>>

NextWeekly ==
    \/ Call_collapse_to_weekly_1
    \/ Call_collapse_to_weekly_2
    \/ Call_filter_complete_weeks_2
    \/ Call_collapse_to_weekly_4
    \/ Call_collapse_to_weekly_7
    \/ Call_filter_consistent_users
    \/ Call_create_user_week_data_for_averages
    \/ Call_create_user_week_matrix_6
    \/ Call_create_user_week_matrix_5
    \/ Call_calculate_weekly_averages_5

SpecWeekly == InitWeekly /\ [][NextWeekly]_vars

(***************************************************************************)
(* Specification SpecOutlier: the weekly outlier functions applied to one  *)
(* dict of weekly totals.                                                  *)
(***************************************************************************)
MaxWeeks == 4

\* the first MaxWeeks week buckets of the period
SampleWeeks == {strftime(may_start + 7 * i) : i \in 0..(MaxWeeks - 1)}

\* weekly totals: the scenario's 100 and 400, its boundary 350, and 0
SampleTotals == {0, 100, 350, 400}

\* 50 is the default and the value main passes; 100 is the scenario's
SamplePercentages == {0, 50, 100}

InitOutlier ==
    /\ pc = "start"
    /\ date_str = None
    /\ commits_data = NoData
    /\ \E weeks \in SUBSET SampleWeeks : weekly_data \in [weeks -> SampleTotals]
    /\ threshold_percentage \in SamplePercentages
    /\ pre_treatment_weeks = None
    /\ uw_data = NoData
    /\ uw_weeks = None
    /\ daily_commits = NoData
    /\ locals = None
    /\ ret = None

Call_remove_weekly_outliers ==
    /\ pc = "start"
    /\ pc' = "remove_weekly_outliers"
    /\ ret' = Returned(remove_weekly_outliers(weekly_data, threshold_percentage))
    /\ UNCHANGED <<date_str, commits_data, weekly_data, threshold_percentage,
                   pre_treatment_weeks, uw_data, uw_weeks, daily_commits, locals>>

\* analysis = analyze_outliers(filtered_weekly_data)
Call_analyze_outliers ==
    /\ pc = "start"
    /\ pc' = "analyze_outliers"
    /\ ret' = analyze_outliers(weekly_data)
    /\ UNCHANGED <<date_str, commits_data, weekly_data, threshold_percentage,
                   pre_treatment_weeks, uw_data, uw_weeks, daily_commits, locals>>

\* filtered_weekly_data = filter_complete_weeks(weekly_data) of 1_collapse
Call_filter_complete_weeks_1 ==
    /\ pc = "start"
    /\ pc' = "filter_complete_weeks_1"
    /\ ret' = Returned(filter_complete_weeks_1(weekly_data))
    /\ UNCHANGED <<date_str, commits_data, weekly_data, threshold_percentage,
                   pre_treatment_weeks, uw_data, uw_weeks, daily_commits, locals>>

NextOutlier ==
    \/ Call_remove_weekly_outliers
    \/ Call_analyze_outliers
    \/ Call_filter_complete_weeks_1

SpecOutlier == InitOutlier /\ [][NextOutlier]_vars

(***************************************************************************)
(* Specification SpecThreshold: the relative-threshold detectors, each     *)
(* applied to its input: the weekly functions to one dict of weekly totals *)
(* (InitOutlier), remove_user_week_outliers of 5_user_week to one          *)
(* user-week matrix as create_user_week_matrix builds it (InitUserWeek).   *)
(***************************************************************************)
MaxCells == 3
MaxCellCommits == 2

\* week buckets of the Jul-17 anchor: one before the period, two inside
SampleMatrixWeeks == {<<2024, 4, 24>>, <<2024, 5, 1>>, <<2024, 5, 8>>}

\* user_week_data has a key for every user with a counted record and a
\* positive entry for each of that user's active weeks; sorted_weeks are
\* the in-period weeks anybody was active in
InitUserWeek ==
    /\ pc = "start"
    /\ date_str = None
    /\ commits_data = NoData
    /\ weekly_data = NoData
    /\ threshold_percentage \in SamplePercentages
    /\ pre_treatment_weeks = None
    /\ \E S \in {X \in SUBSET ((1..NumUsers) \X SampleMatrixWeeks) :
                     Cardinality(X) <= MaxCells} :
          \E c \in [S -> 1..MaxCellCommits] :
             /\ uw_data = [u \in {x[1] : x \in S} |->
                              [w \in {y \in SampleMatrixWeeks : <<u, y>> \in S} |->
                                  c[<<u, w>>]]]
             /\ uw_weeks = filter_complete_weeks_5({x[2] : x \in S})
    /\ daily_commits = NoData
    /\ locals = None
    /\ ret = None

\* cleaned_averages, removed_outliers = remove_user_week_outliers(...); past
\* the early return the first pass reads user_week_data[user][week] of every
\* user and week
Call_remove_user_week_outliers ==
    /\ pc = "start"
    /\ pc' = "remove_user_week_outliers"
    /\ ret' = Returned(remove_user_week_outliers(uw_data, uw_weeks, threshold_percentage))
    /\ uw_data' = IF DOMAIN uw_data = {} \/ Len(uw_weeks) = 0 THEN uw_data
                  ELSE AfterReads(uw_data, uw_weeks)
    /\ UNCHANGED <<date_str, commits_data, weekly_data, threshold_percentage,
                   pre_treatment_weeks, uw_weeks, daily_commits, locals>>

\* weekly_averages = calculate_weekly_averages(user_week_data, sorted_weeks)
Call_calculate_weekly_averages ==
    /\ pc = "start"
    /\ pc' = "calculate_weekly_averages"
    /\ ret' = Returned(calculate_weekly_averages(uw_data, uw_weeks))
    /\ uw_data' = IF DOMAIN uw_data = {} \/ Len(uw_weeks) = 0 THEN uw_data
                  ELSE AfterReads(uw_data, uw_weeks)
    /\ UNCHANGED <<date_str, commits_data, weekly_data, threshold_percentage,
                   pre_treatment_weeks, uw_weeks, daily_commits, locals>>

\* averages_no_power = calculate_averages_without_power_users(...): the loop
\* reads user_week_data[user][week] of the regular users only
Call_calculate_averages_without_power_users ==
    /\ pc = "start"
    /\ pc' = "calculate_averages_without_power_users"
    /\ \E power_users \in SUBSET (DOMAIN uw_data) :
          /\ ret' = Returned(calculate_averages_without_power_users(uw_data, uw_weeks,
                                                                    power_users))
          /\ uw_data' = IF DOMAIN uw_data = {} \/ Len(uw_weeks) = 0 THEN uw_data
                        ELSE [u \in DOMAIN uw_data |->
                                 IF u \in power_users THEN uw_data[u]
                                 ELSE AfterReads(uw_data, uw_weeks)[u]]
    /\ UNCHANGED <<date_str, commits_data, weekly_data, threshold_percentage,
                   pre_treatment_weeks, uw_weeks, daily_commits, locals>>

InitThreshold == InitOutlier \/ InitUserWeek

NextThreshold ==
    \/ Call_remove_weekly_outliers
    \/ Call_analyze_outliers
    \/ Call_remove_user_week_outliers
    \/ Call_calculate_weekly_averages
    \/ Call_calculate_averages_without_power_users

SpecThreshold == InitThreshold /\ [][NextThreshold]_vars

(***************************************************************************)
(* Specification SpecPercentile: remove_top_5_percent_outliers applied to  *)
(* one list of user-week observations.                                     *)
(***************************************************************************)
MaxObs == 4
MaxObsCommits == 3

\* the observations of one complete week, one per user
InitPercentile ==
    /\ pc = "start"
    /\ date_str = None
    /\ commits_data = NoData
    /\ weekly_data = NoData
    /\ threshold_percentage = None
    /\ pre_treatment_weeks = None
    /\ \E n \in 0..MaxObs :
          \E c \in [1..n -> 0..MaxObsCommits] :
              uw_data = [i \in 1..n |->
                            [user |-> i, week |-> strftime(may_start), commits |-> c[i]]]
    /\ uw_weeks = None
    /\ daily_commits = NoData
    /\ locals = None
    /\ ret = None

\* clean_data, outliers = remove_top_5_percent_outliers(user_week_data)
Call_remove_top_5_percent_outliers_6 ==
    /\ pc = "start"
    /\ pc' = "remove_top_5_percent_outliers_6"
    /\ ret' = Returned(remove_top_5_percent_outliers_6(uw_data))
    /\ UNCHANGED <<date_str, commits_data, weekly_data, threshold_percentage,
                   pre_treatment_weeks, uw_data, uw_weeks, daily_commits, locals>>

\* the call on the right-hand side of line 236 of 7_only_graphs
Call_remove_top_5_percent_outliers_7 ==
    /\ pc = "start"
    /\ pc' = "remove_top_5_percent_outliers_7"
    /\ ret' = Returned(remove_top_5_percent_outliers_7(uw_data))
    /\ UNCHANGED <<date_str, commits_data, weekly_data, threshold_percentage,
                   pre_treatment_weeks, uw_data, uw_weeks, daily_commits, locals>>

\* the unpacking assignment of plot_weekly_averages_per_user
Unpack_plot_weekly_averages_per_user ==
    /\ pc = "remove_top_5_percent_outliers_7"
    /\ pc' = "plot_weekly_averages_per_user"
    /\ ret' = unpack_clean_threshold(ret.value)
    /\ UNCHANGED <<date_str, commits_data, weekly_data, threshold_percentage,
                   pre_treatment_weeks, uw_data, uw_weeks, daily_commits, locals>>

\* stats = calculate_distribution_stats(values)
\* outliers = find_outliers_by_method(values, usernames, stats)
Call_find_outliers_by_method ==
    /\ pc = "start"
    /\ pc' = "find_outliers_by_method"
    /\ ret' = Returned(find_outliers_by_method(
                           CommitsValues(uw_data),
                           [i \in 1..Len(uw_data) |-> uw_data[i].user],
                           calculate_distribution_stats(CommitsValues(uw_data))))
    /\ UNCHANGED <<date_str, commits_data, weekly_data, threshold_percentage,
                   pre_treatment_weeks, uw_data, uw_weeks, daily_commits, locals>>

NextPercentile ==
    \/ Call_remove_top_5_percent_outliers_6
    \/ Call_remove_top_5_percent_outliers_7
    \/ Unpack_plot_weekly_averages_per_user
    \/ Call_find_outliers_by_method

SpecPercentile == InitPercentile /\ [][NextPercentile]_vars

(***************************************************************************)
(* Specification SpecUser: the per-user metrics of 3_individual_outliers   *)
(* applied to one user's daily_commits.                                    *)
(***************************************************************************)
MaxDayRecords == 3

\* the day before the window, its first two days and the same weekday a
\* week later, a Saturday in June, the window's last day, the day after
\* it, and a string that is not a date
SampleDays == {<<2024, 4, 30>>, <<2024, 5, 1>>, <<2024, 5, 2>>, <<2024, 5, 8>>,
               <<2024, 6, 15>>, <<2024, 9, 3>>, <<2024, 9, 4>>, <<2024, 2, 30>>}

\* an explicit zero, a single commit, and the 5 of the streak scenario
SampleDayCounts == {0, 1, 5}

InitUser ==
    /\ pc = "start"
    /\ date_str = None
    /\ commits_data = NoData
    /\ weekly_data = NoData
    /\ threshold_percentage = None
    /\ pre_treatment_weeks = None
    /\ uw_data = NoData
    /\ uw_weeks = None
    /\ \E days \in {X \in SUBSET SampleDays : Cardinality(X) <= MaxDayRecords} :
          daily_commits \in [days -> SampleDayCounts]
    /\ locals = None
    /\ ret = None

\* consistency = calculate_consistency_score(daily_commits)
Call_calculate_consistency_score ==
    /\ pc = "start"
    /\ pc' = "calculate_consistency_score"
    /\ ret' = Returned(calculate_consistency_score(daily_commits))
    /\ UNCHANGED <<date_str, commits_data, weekly_data, threshold_percentage,
                   pre_treatment_weeks, uw_data, uw_weeks, daily_commits, locals>>

\* seasonal = analyze_seasonal_patterns(daily_commits)
Call_analyze_seasonal_patterns ==
    /\ pc = "start"
    /\ pc' = "analyze_seasonal_patterns"
    /\ ret' = Returned(analyze_seasonal_patterns(daily_commits))
    /\ UNCHANGED <<date_str, commits_data, weekly_data, threshold_percentage,
                   pre_treatment_weeks, uw_data, uw_weeks, daily_commits, locals>>

\* weekday_pattern = analyze_weekday_patterns(daily_commits)
Call_analyze_weekday_patterns ==
    /\ pc = "start"
    /\ pc' = "analyze_weekday_patterns"
    /\ ret' = Returned(analyze_weekday_patterns(daily_commits))
    /\ UNCHANGED <<date_str, commits_data, weekly_data, threshold_percentage,
                   pre_treatment_weeks, uw_data, uw_weeks, daily_commits, locals>>

\* the monthly_threshold arguments tried
SampleMonthlyThresholds == {0, 4, 9}

\* power_users, _ = identify_power_users_by_month({user: daily_commits}, t)
Call_identify_power_users_by_month ==
    /\ pc = "start"
    /\ \E monthly_threshold \in SampleMonthlyThresholds :
          /\ locals' = [monthly_threshold |-> monthly_threshold]
          /\ ret' = Returned(identify_power_users_by_month([u \in {1} |-> daily_commits],
                                                           monthly_threshold))
    /\ pc' = "identify_power_users_by_month"
    /\ UNCHANGED <<date_str, commits_data, weekly_data, threshold_percentage,
                   pre_treatment_weeks, uw_data, uw_weeks, daily_commits>>

\* power_users = identify_monthly_power_users({user: daily_commits}, t)
Call_identify_monthly_power_users ==
    /\ pc = "start"
    /\ \E monthly_threshold \in SampleMonthlyThresholds :
          /\ locals' = [monthly_threshold |-> monthly_threshold]
          /\ ret' = Returned(identify_monthly_power_users([u \in {1} |-> daily_commits],
                                                          monthly_threshold))
    /\ pc' = "identify_monthly_power_users"
    /\ UNCHANGED <<date_str, commits_data, weekly_data, threshold_percentage,
                   pre_treatment_weeks, uw_data, uw_weeks, daily_commits>>

\* the total_commits values a commits.json may supply
SampleTotalCommits == {0, 36, 37, 2400}

\* classify_users_by_activity of 6_summary on two inputs that differ only in
\* the supplied total_commits
Call_classify_users_by_activity_6 ==
    /\ pc = "start"
    /\ \E t1 \in SampleTotalCommits, t2 \in SampleTotalCommits :
          /\ locals' = [total_commits |-> <<t1, t2>>]
          /\ ret' = Returned(
                 [i \in 1..2 |->
                     classify_users_by_activity_6(
                         [u \in {1} |-> [total_commits |-> <<t1, t2>>[i],
                                         daily_commits |-> daily_commits]])])
    /\ pc' = "classify_users_by_activity_6"
    /\ UNCHANGED <<date_str, commits_data, weekly_data, threshold_percentage,
                   pre_treatment_weeks, uw_data, uw_weeks, daily_commits>>

\* classify_users_by_activity of 3_individual_outliers on the same two inputs
Call_classify_users_by_activity_3 ==
    /\ pc = "start"
    /\ \E t1 \in SampleTotalCommits, t2 \in SampleTotalCommits :
          /\ locals' = [total_commits |-> <<t1, t2>>]
          /\ ret' = Returned(
                 [i \in 1..2 |->
                     classify_users_by_activity_3(
                         [u \in {1} |-> [total_commits |-> <<t1, t2>>[i],
                                         daily_commits |-> daily_commits]])])
    /\ pc' = "classify_users_by_activity_3"
    /\ UNCHANGED <<date_str, commits_data, weekly_data, threshold_percentage,
                   pre_treatment_weeks, uw_data, uw_weeks, daily_commits>>

NextUser ==
    \/ Call_calculate_consistency_score
    \/ Call_identify_power_users_by_month
    \/ Call_identify_monthly_power_users
    \/ Call_classify_users_by_activity_6
    \/ Call_classify_users_by_activity_3
    \/ Call_analyze_seasonal_patterns
    \/ Call_analyze_weekday_patterns

SpecUser == InitUser /\ [][NextUser]_vars

(***************************************************************************)
(* Specification SpecStreak: analyze_individual_users on one user, the     *)
(* while loop of calculate_streak_analysis taken one iteration at a time.  *)
(***************************************************************************)
\* SampleDays without the June Saturday
SampleStreakDays == SampleDays \ {<<2024, 6, 15>>}

\* an explicit zero and the 5 of the streak scenario
SampleStreakCounts == {0, 5}

InitStreak ==
    /\ pc = "start"
    /\ date_str = None
    /\ commits_data = NoData
    /\ weekly_data = NoData
    /\ threshold_percentage = None
    /\ pre_treatment_weeks = None
    /\ uw_data = NoData
    /\ uw_weeks = None
    /\ \E days \in {X \in SUBSET SampleStreakDays : Cardinality(X) <= MaxDayRecords} :
          daily_commits \in [days -> SampleStreakCounts]
    /\ locals = None
    /\ ret = None

\* calculate_streak_analysis up to the loop: the filter, then the early
\* return for an empty filtered_commits or the initial locals
Enter_calculate_streak_analysis ==
    /\ pc = "start"
    /\ IF DOMAIN filter_may_august_commits(daily_commits) = {}
       THEN /\ pc' = "calculate_streak_analysis"
            /\ ret' = Returned([longest_streak |-> 0, longest_break |-> 0])
            /\ UNCHANGED locals
       ELSE /\ pc' = "while current_date <= end_date"
            /\ locals' = StreakLocals(filter_may_august_commits(daily_commits))
            /\ UNCHANGED ret
    /\ UNCHANGED <<date_str, commits_data, weekly_data, threshold_percentage,
                   pre_treatment_weeks, uw_data, uw_weeks, daily_commits>>

\* one iteration of the while loop
Step_calculate_streak_analysis ==
    /\ pc = "while current_date <= end_date"
    /\ locals.current_date <= aug_end_3
    /\ locals' = StreakStep(locals)
    /\ UNCHANGED <<pc, ret, date_str, commits_data, weekly_data, threshold_percentage,
                   pre_treatment_weeks, uw_data, uw_weeks, daily_commits>>

\* the loop condition fails: return the two longest counters
Return_calculate_streak_analysis ==
    /\ pc = "while current_date <= end_date"
    /\ locals.current_date > aug_end_3
    /\ pc' = "calculate_streak_analysis"
    /\ ret' = Returned([longest_streak |-> locals.longest_streak,
                        longest_break |-> locals.longest_break])
    /\ UNCHANGED <<date_str, commits_data, weekly_data, threshold_percentage,
                   pre_treatment_weeks, uw_data, uw_weeks, daily_commits, locals>>

\* the rest of one iteration of analyze_individual_users: the entry of
\* user_metrics, with the streaks just returned
Finish_analyze_individual_users ==
    /\ pc = "calculate_streak_analysis"
    /\ pc' = "analyze_individual_users"
    /\ ret' = Returned(user_metrics(daily_commits, ret.value))
    /\ UNCHANGED <<date_str, commits_data, weekly_data, threshold_percentage,
                   pre_treatment_weeks, uw_data, uw_weeks, daily_commits, locals>>

NextStreak ==
    \/ Enter_calculate_streak_analysis
    \/ Step_calculate_streak_analysis
    \/ Return_calculate_streak_analysis
    \/ Finish_analyze_individual_users

SpecStreak == InitStreak /\ [][NextStreak]_vars

\* the users of the termination check: records on the first two days and the
\* last day of the window and on the day before it
SampleFairDays == {<<2024, 4, 30>>, <<2024, 5, 1>>, <<2024, 5, 2>>, <<2024, 9, 3>>}

InitStreakFair ==
    /\ pc = "start"
    /\ date_str = None
    /\ commits_data = NoData
    /\ weekly_data = NoData
    /\ threshold_percentage = None
    /\ pre_treatment_weeks = None
    /\ uw_data = NoData
    /\ uw_weeks = None
    /\ \E days \in {X \in SUBSET SampleFairDays : Cardinality(X) <= MaxDayRecords} :
          daily_commits \in [days -> SampleStreakCounts]
    /\ locals = None
    /\ ret = None

\* the interpreter keeps executing the loop: an iteration or the return that
\* can be taken is taken
SpecStreakFair ==
    /\ InitStreakFair
    /\ [][NextStreak]_vars
    /\ WF_vars(Step_calculate_streak_analysis)
    /\ WF_vars(Return_calculate_streak_analysis)
(***************************************************************************)
(* Specification SpecReport: the reports of 6_summary, 7_only_graphs and   *)
(* 5_user_week on the commits of the two countries.                        *)
(***************************************************************************)
\* a day of a pre-treatment week and the first day of the treatment
SampleReportDates == {<<2024, 5, 8>>, <<2024, 7, 17>>}
SampleReportCounts == {0, 1, 3}

\* the commits.json of a country with n users: a count for each sample date
SampleCountryData(n) == [1..n -> [SampleReportDates -> SampleReportCounts]]

InitReport ==
    /\ pc = "start"
    /\ date_str = None
    /\ \E bg \in SampleCountryData(2), ph \in SampleCountryData(1) :
          commits_data = [bangladesh |-> bg, philippines |-> ph]
    /\ weekly_data = NoData
    /\ threshold_percentage = None
    /\ pre_treatment_weeks = None
    /\ uw_data = NoData
    /\ uw_weeks = None
    /\ daily_commits = NoData
    /\ locals = None
    /\ ret = None

\* bangladesh_results = analyze_country_user_week(bangladesh_data, ...)
\* philippines_results = analyze_country_user_week(philippines_data, ...)
Call_analyze_country_user_week ==
    /\ pc = "start"
    /\ pc' = "analyze_country_user_week"
    /\ \E bg_matrix \in {create_user_week_matrix_6(commits_data.bangladesh, TRUE).value},
          ph_matrix \in {create_user_week_matrix_6(commits_data.philippines, TRUE).value} :
          \E bg_removed \in {remove_top_5_percent_outliers_6(bg_matrix.user_week_data)},
             ph_removed \in {remove_top_5_percent_outliers_6(ph_matrix.user_week_data)} :
             ret' = Returned([bangladesh_results |->
                                  analyze_country_user_week(bg_matrix, bg_removed),
                              philippines_results |->
                                  analyze_country_user_week(ph_matrix, ph_removed)])
    /\ UNCHANGED <<date_str, commits_data, weekly_data, threshold_percentage,
                   pre_treatment_weeks, uw_data, uw_weeks, daily_commits, locals>>

\* if bangladesh_results and philippines_results: compare_countries_user_week(...)
Call_compare_countries_user_week ==
    /\ pc = "analyze_country_user_week"
    /\ ret.value.bangladesh_results # None
    /\ ret.value.philippines_results # None
    /\ pc' = "compare_countries_user_week"
    /\ ret' = Returned(compare_countries_user_week(ret.value.bangladesh_results,
                                                   ret.value.philippines_results))
    /\ UNCHANGED <<date_str, commits_data, weekly_data, threshold_percentage,
                   pre_treatment_weeks, uw_data, uw_weeks, daily_commits, locals>>

\* one of the countries has no user-week data: the comparison is skipped
Skip_compare_countries_user_week ==
    /\ pc = "analyze_country_user_week"
    /\ \/ ret.value.bangladesh_results = None
       \/ ret.value.philippines_results = None
    /\ pc' = "main"
    /\ ret' = Returned(None)
    /\ UNCHANGED <<date_str, commits_data, weekly_data, threshold_percentage,
                   pre_treatment_weeks, uw_data, uw_weeks, daily_commits, locals>>

\* plot_weekly_averages_per_user(bangladesh_data, philippines_data) of
\* 7_only_graphs, up to bg_averages and ph_averages
Call_plot_weekly_averages_per_user ==
    /\ pc = "start"
    /\ pc' = "calculate_weekly_averages_per_user"
    /\ \E bg_m \in {create_user_week_data_for_averages(commits_data.bangladesh, TRUE).value},
          ph_m \in {create_user_week_data_for_averages(commits_data.philippines, TRUE).value} :
          \E bg \in {averages_per_user(
                         bg_m, remove_top_5_percent_outliers_7(bg_m.user_week_data))},
             ph \in {averages_per_user(
                         ph_m, remove_top_5_percent_outliers_7(ph_m.user_week_data))} :
             ret' = IF bg.raised \/ ph.raised THEN Raised
                    ELSE Returned([bg |-> bg.value, ph |-> ph.value])
    /\ UNCHANGED <<date_str, commits_data, weekly_data, threshold_percentage,
                   pre_treatment_weeks, uw_data, uw_weeks, daily_commits, locals>>

\* main of 5_user_week on bangladesh/commits.json
Call_main_5_user_week ==
    /\ pc = "start"
    /\ pc' = "main_5_user_week"
    /\ ret' = Returned(main_5_user_week(commits_data.bangladesh))
    /\ UNCHANGED <<date_str, commits_data, weekly_data, threshold_percentage,
                   pre_treatment_weeks, uw_data, uw_weeks, daily_commits, locals>>

NextReport ==
    \/ Call_analyze_country_user_week
    \/ Call_plot_weekly_averages_per_user
    \/ Call_main_5_user_week
    \/ Call_compare_countries_user_week
    \/ Skip_compare_countries_user_week

SpecReport == InitReport /\ [][NextReport]_vars


(***************************************************************************)
(* Properties.  The expected values below are stated from the daily        *)
(* records themselves, not through the operators above.                    *)
(***************************************************************************)
AllUsers == DOMAIN commits_data

\* the date string d lies in the 7-day bucket that starts on w
InBucket(d, w) == strptime(w) <= strptime(d) /\ strptime(d) < strptime(w) + 7

\* the date string d lies in the inclusive period 2024-05-01..2024-09-04
InPeriod(d) == may_start <= strptime(d) /\ strptime(d) <= aug_end

\* the records with a positive count and a date string that parses
CountedRecords(cd, us) ==
    {r \in Records(cd, us) : cd[r[1]][r[2]] > 0 /\ ParsesAsDate(r[2])}

\* the commits of the users us on the dates of bucket w
BucketTotal(cd, us, w) ==
    SumCounts(cd, {r \in CountedRecords(cd, us) : InBucket(r[2], w)})

\* the user has a positive count on some date of every bucket of weeks
ActiveInEvery(cd, u, weeks) ==
    \A w \in weeks : \E r \in CountedRecords(cd, {u}) : InBucket(r[2], w)

\* commits_data without the records whose date string does not parse
WithoutMalformed(cd) ==
    [u \in DOMAIN cd |-> [d \in {x \in DOMAIN cd[u] : ParsesAsDate(x)} |-> cd[u][d]]]

\* commits_data without the records whose count is 0
WithoutZeros(cd) ==
    [u \in DOMAIN cd |-> [d \in {x \in DOMAIN cd[u] : cd[u][x] # 0} |-> cd[u][d]]]

\* the users collapse_to_weekly of 7_only_graphs processes
Processed7(cd, complete_weeks, consistent_users_only) ==
    IF consistent_users_only
    THEN {u \in DOMAIN cd : ActiveInEvery(cd, u,
              {w \in Range(complete_weeks) : strptime(w) < treatment_start})}
    ELSE DOMAIN cd

\* C1: the weekly totals kept by the period filter add up to the commits of
\* the processed users on the dates of the period 2024-05-01..2024-09-04
\* (2_outliers: collapse_to_weekly then filter_complete_weeks; 7_only_graphs:
\* collapse_to_weekly).
C1_Conservation ==
    /\ pc = "filter_complete_weeks_2" =>
          SumValues(ret.value, DOMAIN ret.value)
              = SumCounts(commits_data,
                    {r \in CountedRecords(commits_data, AllUsers) : InPeriod(r[2])})
    /\ pc \in {"collapse_to_weekly_7_consistent", "collapse_to_weekly_7_all"} =>
          LET fw == ret.value.filtered_weekly
              us == Processed7(commits_data, sorted(DOMAIN fw),
                               pc = "collapse_to_weekly_7_consistent")
          IN  SumValues(fw, DOMAIN fw)
                  = SumCounts(commits_data,
                        {r \in CountedRecords(commits_data, us) : InPeriod(r[2])})

\* C2: filter_consistent_users returns, each once, exactly the users with a
\* positive count in every bucket of pre_treatment_weeks.
C2_CohortCorrectness ==
    pc = "filter_consistent_users" =>
        /\ \A i, j \in DOMAIN ret.value : ret.value[i] = ret.value[j] => i = j
        /\ Range(ret.value)
               = {u \in AllUsers :
                     ActiveInEvery(commits_data, u, Range(pre_treatment_weeks))}

\* a cohort of one of two users over a window of two buckets
C2_Witness ==
    /\ pc = "filter_consistent_users"
    /\ Len(pre_treatment_weeks) = 2
    /\ Len(ret.value) = 1
    /\ Cardinality(AllUsers) > 1

\* C3: with an empty pre_treatment_weeks filter_consistent_users returns an
\* empty cohort.
C3_EmptyWindowDisqualifiesAll ==
    (pc = "filter_consistent_users" /\ pre_treatment_weeks = <<>>) => ret.value = <<>>

\* C4: every weekly aggregation returns, without raising, what it returns
\* for the input without the records whose date string does not parse.
C4_MalformedDateSkipped ==
    /\ pc = "collapse_to_weekly_1" =>
          ~ret.raised /\ ret = collapse_to_weekly_1(WithoutMalformed(commits_data))
    /\ pc = "collapse_to_weekly_2" =>
          ~ret.raised /\ ret = collapse_to_weekly_2(WithoutMalformed(commits_data))
    /\ pc = "collapse_to_weekly_4" =>
          ~ret.raised /\ ret = collapse_to_weekly_4(WithoutMalformed(commits_data))
    /\ pc = "create_user_week_matrix_5" =>
          ~ret.raised /\ ret = create_user_week_matrix_5(WithoutMalformed(commits_data))
    /\ pc = "create_user_week_matrix_6_consistent" =>
          ~ret.raised
          /\ ret = create_user_week_matrix_6(WithoutMalformed(commits_data), TRUE)
    /\ pc = "create_user_week_matrix_6_all" =>
          ~ret.raised
          /\ ret = create_user_week_matrix_6(WithoutMalformed(commits_data), FALSE)

\* the reference date of the get_week_start_date that returned
ReferenceOf(p) ==
    IF p = "get_week_start_date_2" THEN datetime(2024, 5, 1) ELSE datetime(2024, 7, 17)

\* C5: for a date d the returned bucket start b satisfies b <= d < b + 7
\* days with b - anchor a multiple of 7 days, also for d before the anchor.
C5_BucketFloor ==
    (pc # "start" /\ ParsesAsDate(date_str)) =>
        /\ ParsesAsDate(ret)
        /\ strptime(ret) <= strptime(date_str)
        /\ strptime(date_str) < strptime(ret) + 7
        /\ (strptime(ret) - ReferenceOf(pc)) % 7 = 0

\* a date before the anchor, bucketed into the week before the anchor's
C5_Witness ==
    /\ pc = "get_week_start_date_2"
    /\ date_str = <<2024, 4, 30>>
    /\ ret = <<2024, 4, 24>>

\* C6: bucketing a bucket start returns it unchanged.
C6_BucketIdempotent ==
    /\ (pc = "get_week_start_date_2" /\ ParsesAsDate(date_str)) =>
          get_week_start_date_2(ret) = ret
    /\ (pc = "get_week_start_date_1" /\ ParsesAsDate(date_str)) =>
          get_week_start_date_1(ret) = ret
    /\ (pc = "get_week_start_date_5" /\ ParsesAsDate(date_str)) =>
          get_week_start_date_5(ret) = ret

\* a date inside a bucket, not its start, in another year than the anchor
C6_Witness ==
    /\ pc = "get_week_start_date_5"
    /\ date_str = <<2025, 1, 3>>
    /\ ret # date_str
    /\ ParsesAsDate(ret)

\* C7: the dense user-week data has exactly one observation for every
\* processed user and every complete week, with the user's commits of that
\* week (0 without activity), and no other observation.
C7_DenseMatrix ==
    pc \in {"create_user_week_data_for_averages_consistent",
            "create_user_week_data_for_averages_all"} =>
        LET obs == ret.value.user_week_data
            cw == ret.value.complete_weeks
            us == Processed7(commits_data, cw,
                             pc = "create_user_week_data_for_averages_consistent")
        IN  /\ ret.value.total_users = Cardinality(us)
            /\ Len(obs) = Cardinality(us) * Len(cw)
            /\ \A u \in us : \A w \in Range(cw) :
                  Cardinality({i \in DOMAIN obs : obs[i].user = u /\ obs[i].week = w}) = 1
            /\ \A i \in DOMAIN obs :
                  /\ obs[i].user \in us
                  /\ obs[i].week \in Range(cw)
                  /\ obs[i].commits = BucketTotal(commits_data, {obs[i].user}, obs[i].week)

\* a consistent user with a zero-filled week next to an active one
C7_Witness ==
    /\ pc = "create_user_week_data_for_averages_consistent"
    /\ \E i, j \in DOMAIN ret.value.user_week_data :
          /\ ret.value.user_week_data[i].commits = 0
          /\ ret.value.user_week_data[j].commits > 0
          /\ ret.value.user_week_data[i].user = ret.value.user_week_data[j].user

\* C8: every weekly average of 5_user_week is the week's total commits
\* divided by the number of users of commits_data.
C8_AverageOverAllUsers ==
    pc = "calculate_weekly_averages_5" =>
        /\ ret.value.complete_weeks # <<>> =>
              DOMAIN ret.value.weekly_averages = Range(ret.value.complete_weeks)
        /\ \A w \in DOMAIN ret.value.weekly_averages :
              ret.value.weekly_averages[w].num * Cardinality(AllUsers)
                  = BucketTotal(commits_data, AllUsers, w) * ret.value.weekly_averages[w].den

\* C9: records with count 0 change nothing: collapse_to_weekly and
\* filter_consistent_users return what they return for the input without them.
C9_ZeroIsAbsent ==
    /\ pc = "collapse_to_weekly_1" => ret = collapse_to_weekly_1(WithoutZeros(commits_data))
    /\ pc = "collapse_to_weekly_2" => ret = collapse_to_weekly_2(WithoutZeros(commits_data))
    /\ pc = "collapse_to_weekly_4" => ret = collapse_to_weekly_4(WithoutZeros(commits_data))
    /\ pc = "collapse_to_weekly_7_consistent" =>
          ret = collapse_to_weekly_7(WithoutZeros(commits_data), TRUE)
    /\ pc = "collapse_to_weekly_7_all" =>
          ret = collapse_to_weekly_7(WithoutZeros(commits_data), FALSE)
    /\ pc = "filter_consistent_users" =>
          ret = Returned(filter_consistent_users(WithoutZeros(commits_data),
                                                 pre_treatment_weeks))

\* weekly totals of an input with a zero record in the period and a counted one
C9_Witness ==
    /\ pc = "collapse_to_weekly_2"
    /\ ~ret.raised
    /\ DOMAIN ret.value # {}
    /\ \E r \in Records(commits_data, AllUsers) :
          commits_data[r[1]][r[2]] = 0 /\ ParsesAsDate(r[2]) /\ InPeriod(r[2])

\* the weeks of weekly_data whose commits exceed mean * (1 + pct / 100)
AboveBoundary(wd, pct) ==
    {w \in DOMAIN wd :
        wd[w] * Cardinality(DOMAIN wd) * 100 > SumValues(wd, DOMAIN wd) * (100 + pct)}

\* the weekly totals [100, 100, 100, 400]
IsScenario(wd) ==
    /\ Cardinality(DOMAIN wd) = 4
    /\ Cardinality({w \in DOMAIN wd : wd[w] = 100}) = 3
    /\ Cardinality({w \in DOMAIN wd : wd[w] = 400}) = 1

\* C10: remove_weekly_outliers removes exactly the weeks with commits above
\* mean * (1 + pct / 100) and keeps exactly the others with their totals;
\* for [100, 100, 100, 400] and pct = 100 the mean is 175, the boundary 350
\* and only the 400 week is removed.
C10_RelativeThreshold ==
    pc = "remove_weekly_outliers" =>
        LET kept == ret.value.filtered_data
            removed == ret.value.removed_weeks
        IN  /\ {removed[i][1] : i \in DOMAIN removed}
                   = AboveBoundary(weekly_data, threshold_percentage)
            /\ \A i, j \in DOMAIN removed : removed[i][1] = removed[j][1] => i = j
            /\ \A i \in DOMAIN removed : removed[i][2] = weekly_data[removed[i][1]]
            /\ DOMAIN kept = DOMAIN weekly_data
                                \ AboveBoundary(weekly_data, threshold_percentage)
            /\ \A w \in DOMAIN kept : kept[w] = weekly_data[w]
            /\ (IsScenario(weekly_data) /\ threshold_percentage = 100) =>
                  /\ average_commits(weekly_data).num
                         = 175 * average_commits(weekly_data).den
                  /\ threshold(weekly_data, threshold_percentage).num
                         = 350 * threshold(weekly_data, threshold_percentage).den
                  /\ Len(removed) = 1
                  /\ removed[1][2] = 400

\* the scenario [100, 100, 100, 400] with pct = 100, the 400 week removed
C10_Witness ==
    /\ pc = "remove_weekly_outliers"
    /\ IsScenario(weekly_data)
    /\ threshold_percentage = 100
    /\ Len(ret.value.removed_weeks) = 1
    /\ Cardinality(DOMAIN ret.value.filtered_data) = 3

\* the weeks analyze_outliers reported in the given category
WeeksIn(categories, c) == {categories[c][i][1] : i \in DOMAIN categories[c]}

\* the weeks remove_weekly_outliers reported as removed
RemovedWeeks(result) == {result.removed_weeks[i][1] : i \in DOMAIN result.removed_weeks}

\* the (user, week) cells remove_user_week_outliers reported as removed
RemovedCells(result) ==
    {<<result.removed_outliers[i].user, result.removed_outliers[i].week>> :
        i \in DOMAIN result.removed_outliers}

\* the cells of the matrix whose commits exceed their week's
\* mean over all users * (1 + pct / 100)
CellsAboveBoundary(uwd, weeks, pct) ==
    {x \in (DOMAIN uwd) \X Range(weeks) :
        LET mine == IF x[2] \in DOMAIN uwd[x[1]] THEN uwd[x[1]][x[2]] ELSE 0
            all == {y \in (DOMAIN uwd) \X {x[2]} : y[2] \in DOMAIN uwd[y[1]]}
            total == SumValues([y \in all |-> uwd[y[1]][y[2]]], all)
        IN  mine * Cardinality(DOMAIN uwd) * 100 > total * (100 + pct)}

\* C11: no relative-threshold detector flags a value equal to its boundary
\* mean * (1 + pct / 100): the weeks analyze_outliers puts into high_100 are
\* strictly above mean * 2, those it puts into high_50 strictly above
\* mean * 1.5, and the weeks remove_weekly_outliers removes and the cells
\* remove_user_week_outliers removes are strictly above their threshold.
C11_TieNotFlagged ==
    /\ (pc = "analyze_outliers" /\ ~ret.raised) =>
          /\ WeeksIn(ret.value.categories, "high_100") \subseteq AboveBoundary(weekly_data, 100)
          /\ WeeksIn(ret.value.categories, "high_50") \subseteq AboveBoundary(weekly_data, 50)
    /\ pc = "remove_weekly_outliers" =>
          RemovedWeeks(ret.value) \subseteq AboveBoundary(weekly_data, threshold_percentage)
    /\ pc = "remove_user_week_outliers" =>
          RemovedCells(ret.value)
              \subseteq CellsAboveBoundary(uw_data, uw_weeks, threshold_percentage)

\* C12: raising the percentage never flags more.  For the same weekly_data
\* and every percentage p2 >= threshold_percentage the weeks removed by
\* remove_weekly_outliers at p2 are among those removed at
\* threshold_percentage; likewise for the cells removed by
\* remove_user_week_outliers from the same matrix.
C12_Monotone ==
    /\ pc = "remove_weekly_outliers" =>
          \A p2 \in {p \in SamplePercentages : p >= threshold_percentage} :
              RemovedWeeks(remove_weekly_outliers(weekly_data, p2))
                  \subseteq RemovedWeeks(ret.value)
    /\ pc = "remove_user_week_outliers" =>
          \A p2 \in {p \in SamplePercentages : p >= threshold_percentage} :
              RemovedCells(remove_user_week_outliers(uw_data, uw_weeks, p2))
                  \subseteq RemovedCells(ret.value)

\* a week removed at 50 % that is kept at 100 %
C12_Witness ==
    /\ pc = "remove_weekly_outliers"
    /\ threshold_percentage = 50
    /\ RemovedWeeks(ret.value) # {}
    /\ RemovedWeeks(remove_weekly_outliers(weekly_data, 100)) # RemovedWeeks(ret.value)

\* the k-th smallest (k = 0, 1, ...) of a non-empty sequence of numbers
OrderStatistic(values, k) ==
    CHOOSE v \in Range(values) :
        /\ Cardinality({i \in DOMAIN values : values[i] < v}) <= k
        /\ k < Cardinality({i \in DOMAIN values : values[i] <= v})

\* 100 times the 95th percentile by linear interpolation: the rank
\* 0.95 * (n - 1) lies between two consecutive order statistics and the
\* percentile divides their gap in the proportion of the rank's fraction
HundredTimesP95(values) ==
    LET rank100 == 95 * (Len(values) - 1)
        below == rank100 \div 100
        above == IF rank100 % 100 = 0 THEN below ELSE below + 1
    IN  (100 - (rank100 % 100)) * OrderStatistic(values, below)
            + (rank100 % 100) * OrderStatistic(values, above)

\* C13: remove_top_5_percent_outliers splits the observations, in their
\* order, by the linearly interpolated 95th percentile P95 of the commits:
\* outliers are exactly those with commits > P95, clean_data exactly those
\* with commits <= P95, so an observation equal to P95 is retained; for a
\* non-empty input clean_data is non-empty, and when all commits are equal
\* nothing is flagged.
C13_PercentilePartition ==
    pc \in {"remove_top_5_percent_outliers_6", "remove_top_5_percent_outliers_7"} =>
        LET clean_data == ret.value[1]
            outliers == ret.value[2]
            P95x100 == HundredTimesP95(CommitsValues(uw_data))
            above(obs) == 100 * obs.commits > P95x100
        IN  uw_data # <<>> =>
              /\ outliers = SelectSeq(uw_data, above)
              /\ clean_data = SelectSeq(uw_data, LAMBDA obs : ~above(obs))
              /\ \A i \in DOMAIN uw_data :
                    100 * uw_data[i].commits = P95x100 => uw_data[i] \in Range(clean_data)
              /\ Range(clean_data) \cap Range(outliers) = {}
              /\ Len(clean_data) + Len(outliers) = Len(uw_data)
              /\ clean_data # <<>>
              /\ (\A i, j \in DOMAIN uw_data : uw_data[i].commits = uw_data[j].commits)
                    => outliers = <<>>
              /\ pc = "remove_top_5_percent_outliers_7" =>
                    ret.value[3].num * 100 = P95x100 * ret.value[3].den

\* four observations, the largest above the percentile and flagged, another
\* two tied below it and retained
C13_Witness ==
    /\ pc = "remove_top_5_percent_outliers_7"
    /\ Len(uw_data) = 4
    /\ Len(ret.value[2]) = 1
    /\ Len(ret.value[1]) = 3
    /\ \E i, j \in DOMAIN ret.value[1] :
          i # j /\ ret.value[1][i].commits = ret.value[1][j].commits

\* C14: no outlier method raises on an empty or all-zero input, and its
\* result there has the shape of any other result with nothing flagged:
\* analyze_outliers does not raise and flags no week of an all-zero dict,
\* and the caller of remove_top_5_percent_outliers of 7_only_graphs
\* unpacks the result for an empty list like any other.
C14_EmptyInputDefined ==
    /\ pc = "plot_weekly_averages_per_user" => ~ret.raised
    /\ pc = "remove_top_5_percent_outliers_7" => Len(ret.value) = 3
    /\ pc = "analyze_outliers" =>
          /\ ~ret.raised
          /\ (\A w \in DOMAIN weekly_data : weekly_data[w] = 0) =>
                /\ ret.value.categories.high_100 = <<>>
                /\ ret.value.categories.high_50 = <<>>

\* the dates of the analysis window 2024-05-01 .. 2024-09-03 on which the
\* user has a positive count
ActiveWindowDates(dc) ==
    {d \in DOMAIN dc :
        /\ ParsesAsDate(d)
        /\ ~StrLess(d, <<2024, 5, 1>>) /\ ~StrLess(<<2024, 9, 3>>, d)
        /\ dc[d] > 0}

\* the sum of (x - y)^2 over the unordered pairs of the given dates' counts,
\* which is n^2 times their (population) variance
PairwiseSquares(dc, D) ==
    LET pairs == {p \in D \X D : StrLess(p[1], p[2])}
    IN  SumValues([p \in pairs |-> (dc[p[1]] - dc[p[2]]) * (dc[p[1]] - dc[p[2]])], pairs)

\* daily_commits without its zero records
WithoutZeroDays(dc) == [d \in {x \in DOMAIN dc : dc[x] # 0} |-> dc[d]]

\* C15: calculate_consistency_score is 0 when the user has fewer than two
\* window days with commits > 0; otherwise it is 1 / (1 + cv) with cv the
\* standard deviation over the mean of the active days' counts alone
\* (cv^2 * (sum)^2 = sum of squared pairwise differences), so 0 < score <= 1,
\* and the score is exactly 1 (cv = 0) precisely when all active counts are
\* equal; explicit zero days do not change the score.
C15_ConsistencyScore ==
    pc = "calculate_consistency_score" =>
        LET active == ActiveWindowDates(daily_commits)
            S == SumValues(daily_commits, active)
            cv2 == ret.value.cv_squared
        IN  /\ Cardinality(active) < 2 => ret.value.is_zero
            /\ Cardinality(active) >= 2 =>
                  /\ ~ret.value.is_zero
                  /\ cv2.den > 0 /\ cv2.num >= 0
                  /\ cv2.num * S * S = PairwiseSquares(daily_commits, active) * cv2.den
                  /\ (cv2.num = 0) <=>
                        (\A d, e \in active : daily_commits[d] = daily_commits[e])
            /\ ret.value = calculate_consistency_score(WithoutZeroDays(daily_commits))

\* two active days with different counts and an explicit zero day in the window
C15_Witness ==
    /\ pc = "calculate_consistency_score"
    /\ Cardinality(ActiveWindowDates(daily_commits)) = 2
    /\ \E d \in DOMAIN daily_commits :
          ParsesAsDate(d) /\ daily_commits[d] = 0 /\ d[2] \in 5..8
    /\ ~ret.value.is_zero
    /\ ret.value.cv_squared.num > 0

\* the user {2024-05-01: 5, 2024-05-02: 5, 2024-05-08: 5}
IsStreakScenario(dc) ==
    /\ DOMAIN dc = {<<2024, 5, 1>>, <<2024, 5, 2>>, <<2024, 5, 8>>}
    /\ \A d \in DOMAIN dc : dc[d] = 5

ActiveOrdinals(dc) == {strptime(d) : d \in ActiveWindowDates(dc)}

\* the longest run of consecutive window days that are all active
LongestRun(A) ==
    CHOOSE n \in 0..Cardinality(A) :
        /\ n > 0 => \E a \in A : \A k \in 0..(n - 1) : a + k \in A
        /\ \A m \in (n + 1)..Cardinality(A) :
              ~\E a \in A : \A k \in 0..(m - 1) : a + k \in A

\* the longest run of consecutive window days none of which is active: a
\* run starts on the first day or after an active day and ends before
\* the next active day or with the window
LongestGap(A, first, last) ==
    LET starts == {first} \cup {a + 1 : a \in A}
        stop(s) == IF \E a \in A : a >= s
                   THEN CHOOSE a \in A : a >= s /\ \A b \in A : b >= s => a <= b
                   ELSE last + 1
        lengths == {stop(s) - s : s \in starts}
    IN  CHOOSE n \in lengths : \A m \in lengths : m <= n

\* C17: calculate_streak_analysis treats a missing date as an explicit
\* zero: its result is determined by the set of window dates with
\* commits > 0 alone (the longest run of such days and the longest run of
\* other days of 2024-05-01 .. 2024-09-03), so a user without any record in
\* the window and a user with only explicit zeros there get the same result.
C17_MissingIsZero ==
    pc = "calculate_streak_analysis" =>
        /\ ret.value.longest_streak = LongestRun(ActiveOrdinals(daily_commits))
        /\ ret.value.longest_break
               = LongestGap(ActiveOrdinals(daily_commits), may_start, aug_end_3)

\* the records of daily_commits on a date of the analysis window
\* 2024-05-01 .. 2024-09-03, and their total
WindowDates(dc) ==
    {d \in DOMAIN dc :
        ParsesAsDate(d) /\ ~StrLess(d, <<2024, 5, 1>>) /\ ~StrLess(<<2024, 9, 3>>, d)}

WindowTotal(dc) == SumValues(dc, WindowDates(dc))

\* C18: the per-user averages divide the window total by the length of the
\* window 2024-05-01 .. 2024-09-03 it was summed over: avg_commits_per_day
\* is total_commits over its number of days, avg_commits_per_week is
\* total_commits over that number of days / 7; a zero total averages to 0.
C18_WindowLengthDivisor ==
    pc = "analyze_individual_users" =>
        LET m == ret.value
            days == aug_end_3 - may_start + 1
        IN  /\ m.total_commits = WindowTotal(daily_commits)
            /\ m.total_commits = 0 =>
                  /\ m.avg_commits_per_day.num = 0
                  /\ m.avg_commits_per_week.num = 0
                  /\ m.avg_commits_per_month.num = 0
            /\ m.total_commits > 0 =>
                  /\ m.avg_commits_per_day.num * days
                         = m.total_commits * m.avg_commits_per_day.den
                  /\ m.avg_commits_per_week.num * days
                         = 7 * m.total_commits * m.avg_commits_per_week.den

\* C19: analyze_seasonal_patterns returns most_active_month = None exactly
\* when the user's total over the window 2024-05-01 .. 2024-09-03 is 0;
\* otherwise most_active_month is a month of largest monthly sum and the
\* monthly sums add up to the window total.
C19_MostActiveMonth ==
    pc = "analyze_seasonal_patterns" =>
        LET mc == ret.value.monthly_commits
            total == WindowTotal(daily_commits)
        IN  /\ (ret.value.most_active_month = None) <=> (total = 0)
            /\ total > 0 =>
                  /\ ret.value.most_active_month # None
                  /\ \A k \in DOMAIN mc : mc[k] <= mc[ret.value.most_active_month[1]]
                  /\ SumValues(mc, DOMAIN mc) = total

\* C20: analyze_weekday_patterns never divides by zero; for a positive
\* window total weekday_commits + weekend_commits is that total and
\* weekday_ratio + weekend_ratio = 1; for a zero total both ratios are 0.
C20_RatioCompleteness ==
    pc = "analyze_weekday_patterns" =>
        LET r == ret.value
            total == WindowTotal(daily_commits)
        IN  /\ r.weekday_ratio.den > 0 /\ r.weekend_ratio.den > 0
            /\ total > 0 =>
                  /\ r.weekday_commits + r.weekend_commits = total
                  /\ r.weekday_ratio.num * r.weekend_ratio.den
                         + r.weekend_ratio.num * r.weekday_ratio.den
                     = r.weekday_ratio.den * r.weekend_ratio.den
            /\ total = 0 =>
                  /\ r.weekday_ratio.num = 0
                  /\ r.weekend_ratio.num = 0

\* commits on a Wednesday and on a Saturday of the window
C20_Witness ==
    /\ pc = "analyze_weekday_patterns"
    /\ {<<2024, 5, 1>>, <<2024, 6, 15>>} \subseteq DOMAIN daily_commits
    /\ ret.value.weekday_commits = daily_commits[<<2024, 5, 1>>]
    /\ ret.value.weekend_commits = daily_commits[<<2024, 6, 15>>]
    /\ ret.value.weekday_commits > 0
    /\ ret.value.weekend_commits > 0

\* the chronologically earliest and latest week of a set of weeks
EarliestAndLatest(W) ==
    {w \in W : (\A v \in W : ~StrLess(v, w)) \/ (\A v \in W : ~StrLess(w, v))}

\* C21: filter_complete_weeks of 1_collapse never raises; for more than
\* two buckets it returns the input without exactly its earliest and its
\* latest bucket, every other bucket with its total; for 0, 1 or 2 buckets
\* it returns the input unchanged.
C21_TrimEnds ==
    pc = "filter_complete_weeks_1" =>
        /\ ~ret.raised
        /\ Cardinality(DOMAIN weekly_data) > 2 =>
              /\ DOMAIN ret.value = DOMAIN weekly_data \ EarliestAndLatest(DOMAIN weekly_data)
              /\ Cardinality(DOMAIN ret.value) = Cardinality(DOMAIN weekly_data) - 2
              /\ \A w \in DOMAIN ret.value : ret.value[w] = weekly_data[w]
        /\ Cardinality(DOMAIN weekly_data) <= 2 => ret.value = weekly_data

\* four buckets, the two inner ones returned
C21_Witness ==
    /\ pc = "filter_complete_weeks_1"
    /\ Cardinality(DOMAIN weekly_data) = 4
    /\ Cardinality(DOMAIN ret.value) = 2
    /\ \E w \in DOMAIN ret.value : ret.value[w] > 0


\* the ratios of the rows printed by compare_countries_user_week
ReportRatios == {ret.value[i].ratio : i \in DOMAIN ret.value}

\* the rows compare_with_without_outliers printed for the two countries
PrintedChanges ==
    LET rows(results) == IF results = None THEN {}
                         ELSE {results.printed[i] : i \in DOMAIN results.printed}
    IN  rows(ret.value.bangladesh_results) \cup rows(ret.value.philippines_results)

\* C22: every ratio of compare_countries_user_week is guarded against a zero
\* Philippines value and is a sentinel, never infinity, and every change of
\* compare_with_without_outliers is 'N/A' when the original value is 0
C22_NoInfinity ==
    /\ pc = "compare_countries_user_week" =>
           \A r \in ReportRatios : r.kind # "inf" /\ r.value.den # 0
    /\ pc = "analyze_country_user_week" =>
           \A row \in PrintedChanges :
               row.orig_val.num = 0 => row.change.kind = "N/A"


\* the months a user exceeds the threshold in, counting only the records
\* dated 2024-05-01 .. 2024-09-04
MonthsAboveInWindow(t) ==
    LET W == {d \in DOMAIN daily_commits :
                 /\ ParsesAsDate(d)
                 /\ d[1] = 2024
                 /\ \/ d[2] \in 5..8
                    \/ d[2] = 9 /\ d[3] <= 4}
    IN  {m \in 5..9 : SumValues(daily_commits, {d \in W : d[2] = m}) > t}

\* the power users expected of the one-user input
WindowPowerUsers(t) == IF MonthsAboveInWindow(t) # {} THEN {1} ELSE {}

\* C23: a user is a power user iff the commits of some single calendar month,
\* restricted to 2024-05-01..2024-09-04, exceed the monthly threshold, and
\* identify_power_users_by_month and identify_monthly_power_users return the
\* same set
C23_PowerUsersInWindow ==
    /\ pc = "identify_monthly_power_users" =>
           ret.value = WindowPowerUsers(locals.monthly_threshold)
    /\ pc = "identify_power_users_by_month" =>
           /\ ret.value[1] = WindowPowerUsers(locals.monthly_threshold)
           /\ ret.value[1] = identify_monthly_power_users([u \in {1} |-> daily_commits],
                                                          locals.monthly_threshold)


\* C24: the supplied total_commits is never trusted: two inputs with the same
\* daily_commits and different total_commits get the same classification
C24_TotalCommitsNotTrusted ==
    pc \in {"classify_users_by_activity_6", "classify_users_by_activity_3"} =>
        ret.value[1] = ret.value[2]


\* the user has at least one record dated inside 2024-05-01 .. 2024-09-03
HasWindowRecord ==
    \E d \in DOMAIN daily_commits :
        ParsesAsDate(d) /\ may_start <= strptime(d) /\ strptime(d) <= aug_end_3

\* the number of days of 2024-05-01 .. 2024-09-03
WindowDays == aug_end_3 - may_start + 1

\* inside the loop, and at the return of a user with a record in the window
StreakLoopInvariant ==
    /\ pc = "while current_date <= end_date" =>
           /\ locals.current_date \in may_start..(aug_end_3 + 1)
           /\ locals.current_date > may_start =>
                  (locals.current_streak = 0) # (locals.current_break = 0)
           /\ locals.longest_streak + locals.longest_break
                  <= locals.current_date - may_start
    /\ (pc = "calculate_streak_analysis" /\ HasWindowRecord) =>
           /\ locals.current_date = aug_end_3 + 1
           /\ ret.value.longest_streak = LongestRun(ActiveOrdinals(daily_commits))
           /\ ret.value.longest_break
                  = LongestGap(ActiveOrdinals(daily_commits), may_start, aug_end_3)
           /\ ret.value.longest_streak + ret.value.longest_break <= WindowDays

\* an iteration moves to the next calendar day
NextDayVisited ==
    (pc = "while current_date <= end_date" /\ pc' = pc) =>
        locals'.current_date = locals.current_date + 1

\* C25: calculate_streak_analysis terminates after visiting every day of the
\* window once in ascending order; for a user with a record in the window it
\* returns the longest run of days with commits > 0 and the longest run of
\* days with commits = 0 or absent; after every iteration exactly one of the
\* running counters is 0; longest_streak + longest_break <= days of the window
C25_StreakWalk ==
    /\ []StreakLoopInvariant
    /\ [][NextDayVisited]_vars
    /\ (pc = "while current_date <= end_date") ~> (pc = "calculate_streak_analysis")

\* a walk that returned a streak of two days and a break
C25_Witness ==
    /\ pc = "calculate_streak_analysis"
    /\ HasWindowRecord
    /\ locals.current_date = aug_end_3 + 1
    /\ ret.value.longest_streak = 2
    /\ ret.value.longest_break \in 1..(WindowDays - 2)
    /\ ret.value.longest_break # 118


\* the values passed to find_outliers_by_method
ValueSet == {uw_data[i].commits : i \in DOMAIN uw_data}

\* C26: the rule 'top 1%' flags only values strictly greater than the 99th
\* percentile, so for a non-empty value set whose values are all equal and
\* non-zero no user is flagged in top_1_percent
C26_TieWithP99Retained ==
    (/\ pc = "find_outliers_by_method"
     /\ Cardinality(ValueSet) = 1
     /\ 0 \notin ValueSet) => ret.value.top_1_percent = <<>>


\* a step of one of the three stages of 5_user_week
StageOf5Runs ==
    pc' \in {"calculate_weekly_averages", "remove_user_week_outliers",
             "calculate_averages_without_power_users"}

\* C27: the stages are read-only over their input: after
\* calculate_weekly_averages, remove_user_week_outliers or
\* calculate_averages_without_power_users ran, user_week_data has exactly the
\* same users and, for each user, the same week keys and values as before
C27_StagesReadOnly == [][StageOf5Runs => uw_data' = uw_data]_vars


\* C28: the anchors 2024-05-01 and 2024-07-17 are 77 days apart and induce
\* the same buckets: for every date both bucketers return the same bucket
\* start, the start of the 7-day bucket holding the date, a whole number of
\* weeks from either anchor; 2024-07-17 is itself a bucket start, and a
\* bucket that starts before 2024-07-17 holds no date on or after it
C28_AnchorsAgree ==
    (/\ pc \in {"get_week_start_date_1", "get_week_start_date_2", "get_week_start_date_5"}
     /\ ParsesAsDate(date_str)) =>
        /\ ret = get_week_start_date_1(date_str)
        /\ ret = get_week_start_date_2(date_str)
        /\ strptime(ret) <= strptime(date_str)
        /\ strptime(date_str) < strptime(ret) + 7
        /\ (strptime(ret) - datetime(2024, 5, 1)) % 7 = 0
        /\ (strptime(ret) - datetime(2024, 7, 17)) % 7 = 0
        /\ datetime(2024, 7, 17) - datetime(2024, 5, 1) = 77
        /\ date_str = <<2024, 7, 17>> => ret = <<2024, 7, 17>>
        /\ strptime(ret) < datetime(2024, 7, 17) =>
               strptime(date_str) < datetime(2024, 7, 17)

\* the July-anchored bucketer put the day before the treatment start into
\* the bucket that starts on 2024-07-10
C28_Witness ==
    /\ pc = "get_week_start_date_1"
    /\ date_str = <<2024, 7, 16>>
    /\ ret = <<2024, 7, 10>>


\* the commits a country's user made in the 7-day bucket that starts on w
BucketCommits(cd, u, w) ==
    SumValues(cd[u], {d \in DOMAIN cd[u] :
                         /\ strptime(w) <= strptime(d)
                         /\ strptime(d) < strptime(w) + 7})

\* cleaned <= original, and equal exactly when nothing of the week was flagged
NeverRaised(cleaned, original, flagged) ==
    /\ cleaned.num * original.den <= original.num * cleaned.den
    /\ (cleaned.num * original.den = original.num * cleaned.den) <=> ~flagged

\* the same for the averages of one country in 7_only_graphs: the original
\* average of a week is the week's commits of the cohort over the cohort size
NeverRaised7(l) ==
    \A w \in Range(l.weeks) :
        LET W == {i \in DOMAIN l.user_week : l.user_week[i].week = w}
        IN  NeverRaised(l.averages[w],
                        Frac(SumValues([i \in W |-> l.user_week[i].commits], W), l.users),
                        \E i \in W : \A j \in DOMAIN l.clean : l.clean[j] # l.user_week[i])

\* C29: removing user-week outliers never raises a weekly average: in
\* remove_user_week_outliers of 5_user_week and in
\* calculate_weekly_averages_per_user on the P95-cleaned data a flagged cell
\* contributes 0 and the denominator is the full user count, so every week's
\* cleaned average is <= its original average, with equality iff no cell of
\* the week was flagged
C29_CleaningNeverRaises ==
    /\ (pc = "main_5_user_week" /\ ret.value # None) =>
           \A w \in Range(ret.value.sorted_weeks) :
               NeverRaised(ret.value.cleaned_averages[w],
                           Frac(SumValues([u \in DOMAIN ret.value.user_week_data |->
                                              BucketCommits(commits_data.bangladesh, u, w)],
                                          DOMAIN ret.value.user_week_data),
                                Cardinality(DOMAIN ret.value.user_week_data)),
                           \E i \in DOMAIN ret.value.removed_outliers :
                               ret.value.removed_outliers[i].week = w)
    /\ (pc = "calculate_weekly_averages_per_user" /\ ~ret.raised) =>
           NeverRaised7(ret.value.bg) /\ NeverRaised7(ret.value.ph)

\* main of 5_user_week removed an outlier and the week's average fell
C29_Witness ==
    /\ pc = "main_5_user_week"
    /\ ret.value # None
    /\ ret.value.removed_outliers # <<>>
    /\ \E w \in Range(ret.value.sorted_weeks) :
           ret.value.cleaned_averages[w].num < ret.value.weekly_averages[w].num

\* 7_only_graphs removed an observation of one of two weeks of Bangladesh
FlaggedIn7 ==
    /\ pc = "calculate_weekly_averages_per_user"
    /\ ~ret.raised
    /\ Len(ret.value.bg.clean) < Len(ret.value.bg.user_week)
    /\ Len(ret.value.bg.weeks) = 2

\* the results of the two countries that are not None
CountryResults ==
    {<<commits_data[c], ret.value[r]>> :
        <<c, r>> \in {<<"bangladesh", "bangladesh_results">>,
                      <<"philippines", "philippines_results">>}}

\* the complete weeks that start before 2024-07-17
WeeksBeforeTreatment(weeks) ==
    {w \in Range(weeks) : StrLess(w, <<2024, 7, 17>>)}

\* the users with a commit in every pre-treatment week
Cohort(cd, weeks) ==
    {u \in DOMAIN cd : \A w \in WeeksBeforeTreatment(weeks) : BucketCommits(cd, u, w) > 0}

\* analyze_user_week_statistics on a non-empty list sees no zero week
AllActive(uwd) ==
    uwd # <<>> =>
        /\ analyze_user_week_statistics(uwd).zero_commit_weeks.num = 0
        /\ analyze_user_week_statistics(uwd).active_weeks
               = analyze_user_week_statistics(uwd).total_observations
        /\ analyze_user_week_statistics(uwd).active_percentage.num
               = 100 * analyze_user_week_statistics(uwd).active_percentage.den

\* every cohort user has an observation per pre-treatment week in uwd
CohortCovered(cd, weeks, uwd) ==
    \A u \in Cohort(cd, weeks) :
        Cardinality({i \in DOMAIN uwd : uwd[i].user = u})
            >= Cardinality(WeeksBeforeTreatment(weeks))

\* C30 as stated: every observation of create_user_week_matrix has
\* commits >= 1, and for the observation set it returns as well as for the
\* set remove_top_5_percent_outliers makes of it the statistics report
\* zero_commit_weeks = 0, active_weeks = total_observations,
\* active_percentage = 100, and every cohort user has at least as many
\* observations as there are pre-treatment weeks
C30_SparseObservations ==
    pc = "analyze_country_user_week" =>
        \A x \in CountryResults :
            x[2] # None =>
                /\ \A i \in DOMAIN x[2].user_week_data : x[2].user_week_data[i].commits >= 1
                /\ AllActive(x[2].user_week_data)
                /\ AllActive(x[2].clean_data)
                /\ x[2].clean_stats.zero_commit_weeks.num = 0
                /\ CohortCovered(x[1], x[2].complete_weeks, x[2].user_week_data)
                /\ CohortCovered(x[1], x[2].complete_weeks, x[2].clean_data)

\* C30 amended: as above, but the count of observations per cohort user is
\* that of the set create_user_week_matrix returns; the set left by
\* remove_top_5_percent_outliers may hold fewer observations of a cohort user
\* than there are pre-treatment weeks
C30_SparseObservationsOfMatrix ==
    pc = "analyze_country_user_week" =>
        \A x \in CountryResults :
            x[2] # None =>
                /\ \A i \in DOMAIN x[2].user_week_data : x[2].user_week_data[i].commits >= 1
                /\ AllActive(x[2].user_week_data)
                /\ AllActive(x[2].clean_data)
                /\ x[2].clean_stats.zero_commit_weeks.num = 0
                /\ CohortCovered(x[1], x[2].complete_weeks, x[2].user_week_data)

\* a cohort of two users, one of whose pre-treatment observations was removed
C30_Witness ==
    /\ pc = "analyze_country_user_week"
    /\ ret.value.bangladesh_results # None
    /\ Cardinality(Cohort(commits_data.bangladesh,
                          ret.value.bangladesh_results.complete_weeks)) = 2
    /\ WeeksBeforeTreatment(ret.value.bangladesh_results.complete_weeks) # {}
    /\ ret.value.bangladesh_results.outliers # <<>>
    /\ ~CohortCovered(commits_data.bangladesh, ret.value.bangladesh_results.complete_weeks,
                      ret.value.bangladesh_results.clean_data)

====
